---- MODULE Spec2Model ----
(***************************************************************************)
(* Channel / device-slot model of the DtCyber peripheral emulation core:   *)
(* the 1612 line printer (lp1612.c), the 3000-series line printer          *)
(* (lp3000.c) and the 6612 console (console.c).                            *)
(*                                                                         *)
(* Every device callback (func, io, activate, disconnect) and the operator *)
(* command removePaper is one action; a callback is a pure operator from   *)
(* the machine state (slot, channel, host files, console globals) to the   *)
(* machine state after the call, written case by case from the C source.   *)
(* Text written to a capture file is a sequence of one-character strings.  *)
(***************************************************************************)
EXTENDS Integers, Sequences, FiniteSets, TLC

(***************************************************************************)
(* Bounds of the exploration.                                              *)
(***************************************************************************)
MaxFile == 3
MaxFileScenario == 4
MaxPageLine == 3
MaxTrace == 5
MaxFileOverprint == 8
MaxTraceOverprint == 7
MaxFilePreprint == 5
MaxTracePreprint == 6
MaxTraceCodes == 2
MaxTypeahead == 1
MaxFileSpace == 4
MaxLineSpace == 5
MaxTraceFill == 6
MaxTraceStatus == 5
MaxKeyInTypeahead == 2
MaxTraceMatch == 5
MaxRingKeys == 60
MaxTraceSelects == 7

(***************************************************************************)
(* Octal literals and the 12-bit word arithmetic of the source.            *)
(***************************************************************************)
RECURSIVE Oct(_)
Oct(n) == IF n = 0 THEN 0 ELSE (n % 10) + 8 * Oct(n \div 10)

Mask6 == Oct(77)
Hi6(w) == (w \div 64) % (Mask6 + 1)
Lo6(w) == w % (Mask6 + 1)

FcAccepted == "FcAccepted"
FcProcessed == "FcProcessed"
FcDeclined == "FcDeclined"

DtConsole == "DtConsole"
DtLp1612 == "DtLp1612"
DtLp5xx == "DtLp5xx"

NULL == "NULL"
OPEN == "FILE"

(***************************************************************************)
(* Character tables (charset.c).  Only the entries the explored words and  *)
(* strings use are distinguished; every other code prints as "?".          *)
(***************************************************************************)
extBcdToAscii(c) ==
    CASE c = Oct(30) -> "H"
      [] c = Oct(31) -> "I"
      [] OTHER -> "?"

bcdToAscii(c) ==
    CASE c = Oct(30) -> "A"
      [] c = Oct(31) -> "B"
      [] c = Oct(32) -> "C"
      [] c = Oct(33) -> "D"
      [] OTHER -> "?"

Letters == <<"A", "B", "C", "D", "E", "F", "G", "H", "I", "J", "K", "L", "M",
             "N", "O", "P", "Q", "R", "S", "T", "U", "V", "W", "X", "Y", "Z">>
Digits == <<"0", "1", "2", "3", "4", "5", "6", "7", "8", "9">>

IndexOf(seq, x) == IF \E i \in 1..Len(seq) : seq[i] = x
                   THEN CHOOSE i \in 1..Len(seq) : seq[i] = x
                   ELSE 0

\* the character a byte written by fputc is read back as
Chr(b) ==
    CASE b \in 65 .. 90 -> Letters[b - 64]
      [] b \in 48 .. 57 -> Digits[b - 47]
      [] b = 32 -> " "
      [] b = 10 -> "\n"
      [] OTHER -> "?"

NUL == ""

\* s[i] of a zero-filled C character array holding the string s
StrAt(s, i) == IF i < Len(s) THEN s[i + 1] ELSE NUL

\* the C string that starts an array: the characters before the first NUL
CStr(a) ==
    IF \E i \in 1 .. Len(a) : a[i] = NUL
    THEN SubSeq(a, 1, (CHOOSE i \in 1 .. Len(a) :
                          a[i] = NUL /\ \A j \in 1 .. (i - 1) : a[j] # NUL) - 1)
    ELSE a

\* display code of an ASCII character; NUL and unknown characters give 0
asciiToCdc(ch) ==
    CASE IndexOf(Letters, ch) # 0 -> IndexOf(Letters, ch)
      [] IndexOf(Digits, ch) # 0 -> Oct(32) + IndexOf(Digits, ch)
      [] ch = " " -> Oct(55)
      [] OTHER -> 0

\* console key code of an ASCII character
asciiToConsole(ch) ==
    CASE IndexOf(Letters, ch) # 0 -> IndexOf(Letters, ch)
      [] IndexOf(Digits, ch) # 0 -> Oct(32) + IndexOf(Digits, ch)
      [] ch = "\n" -> Oct(60)
      [] ch = " " -> Oct(62)
      [] OTHER -> 0

(***************************************************************************)
(* 1612 line printer: function codes and status reply (lp1612.c).          *)
(***************************************************************************)
FcPrintSelect == Oct(600)
FcPrintSingleSpace == Oct(601)
FcPrintDoubleSpace == Oct(602)
FcPrintMoveChannel7 == Oct(603)
FcPrintMoveTOF == Oct(604)
FcPrintPrint == Oct(605)
FcPrintSuppressLF == Oct(606)
FcPrintStatusReq == Oct(607)
FcPrintFormat6 == Oct(616)
St1612PrintReady == Oct(4000)

\* the case labels of the switch in lp1612Func
Lp1612Codes == FcPrintSelect .. FcPrintFormat6

(***************************************************************************)
(* The machine state a callback works on:                                  *)
(*   dp  the device slot (activeDevice / active3000Device): deviceType,    *)
(*       fcode, fcb (fcb[0]: NULL or an open FILE), context (the LpContext)*)
(*   ch  the channel (activeChannel): data, full, status                   *)
(*   fs  the host files: active (the bytes of the capture file)            *)
(*   con the console globals                                               *)
(*   irq the summary last passed to dcc6681Interrupt                       *)
(* and what the call reports: ret (the FcStatus), reply (io placed a reply *)
(* word on the channel), word (the data word io consumed, or NoWord), host *)
(* (the fclose / rename / fopen calls made, and the bytes the call moved   *)
(* into an archive file).                                                  *)
(***************************************************************************)
NoWord == 0 - 1
NoHost == [fails |-> 0, renames |-> 0, renamed |-> FALSE, closed |-> FALSE,
           opened |-> FALSE, archived |-> <<>>]
NoRet == "none"

Call(m) == [dp |-> m.dp, ch |-> m.ch, fs |-> m.fs, con |-> m.con, irq |-> m.irq,
            ret |-> NoRet, reply |-> FALSE, word |-> NoWord, host |-> NoHost]

\* fprintf / fputc to fcb[0]
Fput(r, text) == [r EXCEPT !.fs.active = @ \o text]

(***************************************************************************)
(* Paper removal (operator command), after the parameters have been parsed *)
(* and the slot located.  fails is the number of leading rename() calls    *)
(* that fail, reopenOK whether the final fopen() succeeds.                 *)
(***************************************************************************)
RenameAttempts == 100

\* Fault: the loop bound is off by one, suffix 100 is tried too
RECURSIVE RenameLoop_OneMore(_, _)
RenameLoop_OneMore(isuffix, fails) ==
    IF isuffix <= RenameAttempts
    THEN IF fails = 0
         THEN [renames |-> isuffix + 1, renamed |-> TRUE]
         ELSE RenameLoop_OneMore(isuffix + 1, fails - 1)
    ELSE [renames |-> isuffix, renamed |-> FALSE]

RECURSIVE RenameLoop(_, _)
RenameLoop(isuffix, fails) ==
    IF isuffix < RenameAttempts
    THEN IF fails = 0
         THEN [renames |-> isuffix + 1, renamed |-> TRUE]
         ELSE RenameLoop(isuffix + 1, fails - 1)
    ELSE [renames |-> isuffix, renamed |-> FALSE]

\* fclose, the rename loop and fopen(fname, "w") of a non-empty capture file
CloseRenameReopen(r, fails, reopenOK) ==
    LET loop == RenameLoop(0, fails)
    IN  [r EXCEPT !.fs.active = IF loop.renamed \/ reopenOK THEN <<>> ELSE @,
                  !.dp.fcb = IF reopenOK THEN OPEN ELSE NULL,
                  !.host = [fails |-> fails, renames |-> loop.renames, renamed |-> loop.renamed,
                            closed |-> TRUE, opened |-> reopenOK,
                            archived |-> IF loop.renamed THEN r.fs.active ELSE <<>>]]

lp1612RemovePaper(r, fails, reopenOK) ==
    IF r.dp.fcb = NULL THEN r
    ELSE IF Len(r.fs.active) = 0 THEN r
    ELSE CloseRenameReopen(r, fails, reopenOK)

\* Fault: the ftell() == 0 return is missing, an empty file is archived too
lp3000RemovePaper_NoEmptyCheck(r, fails, reopenOK) ==
    IF r.dp.fcb = NULL THEN r
    ELSE CloseRenameReopen(r, fails, reopenOK)

lp3000RemovePaper(r, fails, reopenOK) ==
    IF r.dp.fcb = NULL THEN r
    ELSE IF Len(r.fs.active) = 0 THEN r
    ELSE CloseRenameReopen(r, fails, reopenOK)

(***************************************************************************)
(* 1612 line printer callbacks.                                            *)
(***************************************************************************)
\* Fault: MoveTOF spaces one line instead of ejecting the page
lp1612FuncText_TOFAsSingle(useANSI, funcCode) ==
    CASE funcCode \in {FcPrintSingleSpace, FcPrintMoveChannel7, FcPrintPrint,
                       FcPrintMoveTOF} ->
             IF useANSI THEN <<"\n", " ">> ELSE <<"\n">>
      [] funcCode = FcPrintDoubleSpace ->
             IF useANSI THEN <<"\n", "0">> ELSE <<"\n", "\n">>
      [] funcCode = FcPrintSuppressLF ->
             IF useANSI THEN <<"\n", "+">> ELSE <<"\r">>
      [] OTHER -> <<>>

lp1612FuncText(useANSI, funcCode) ==
    CASE funcCode \in {FcPrintSingleSpace, FcPrintMoveChannel7, FcPrintPrint} ->
             IF useANSI THEN <<"\n", " ">> ELSE <<"\n">>
      [] funcCode = FcPrintDoubleSpace ->
             IF useANSI THEN <<"\n", "0">> ELSE <<"\n", "\n">>
      [] funcCode = FcPrintMoveTOF ->
             IF useANSI THEN <<"\n", "1">> ELSE <<"\f">>
      [] funcCode = FcPrintSuppressLF ->
             IF useANSI THEN <<"\n", "+">> ELSE <<"\r">>
      [] OTHER -> <<>>

\* Fault: StatusReq is latched without preparing the status word
lp1612Func_NoStatus(m, funcCode) ==
    LET r == Call(m)
        w == Fput(r, lp1612FuncText(r.dp.context.extuseANSI, funcCode))
    IN  IF r.dp.fcb = NULL THEN [r EXCEPT !.ret = FcProcessed]
        ELSE IF funcCode \notin Lp1612Codes THEN [r EXCEPT !.ret = FcDeclined]
        ELSE IF funcCode = FcPrintSuppressLF THEN [w EXCEPT !.ret = FcProcessed]
        ELSE [w EXCEPT !.dp.fcode = funcCode, !.ret = FcAccepted]

lp1612Func(m, funcCode) ==
    LET r == Call(m)
        w == Fput(r, lp1612FuncText(r.dp.context.extuseANSI, funcCode))
    IN  IF r.dp.fcb = NULL THEN [r EXCEPT !.ret = FcProcessed]
        ELSE IF funcCode \notin Lp1612Codes THEN [r EXCEPT !.ret = FcDeclined]
        ELSE IF funcCode = FcPrintSuppressLF THEN [w EXCEPT !.ret = FcProcessed]
        ELSE [w EXCEPT !.ch.status = IF funcCode = FcPrintStatusReq
                                      THEN St1612PrintReady ELSE @,
                       !.dp.fcode = funcCode,
                       !.ret = FcAccepted]

\* Fault: the status is cleared before it is copied to the channel
lp1612IoStatus_ClearsFirst(r) ==
    [r EXCEPT !.ch = [data |-> 0, full |-> TRUE, status |-> 0],
              !.dp.fcode = 0,
              !.reply = TRUE]

lp1612IoStatus(r) ==
    [r EXCEPT !.ch = [data |-> r.ch.status, full |-> TRUE, status |-> 0],
              !.dp.fcode = 0,
              !.reply = TRUE]

\* Fault: the io callback does not test the file handle
lp1612Io_NoNullCheck(m) ==
    LET r == Call(m)
    IN  IF r.dp.fcode = FcPrintStatusReq THEN lp1612IoStatus(r)
        ELSE IF r.ch.full
             THEN [Fput(r, <<extBcdToAscii(r.ch.data % Oct(100))>>)
                       EXCEPT !.ch.full = FALSE, !.word = r.ch.data]
             ELSE r

lp1612Io(m) ==
    LET r == Call(m)
    IN  IF r.dp.fcb = NULL THEN r
        ELSE IF r.dp.fcode = FcPrintStatusReq THEN lp1612IoStatus(r)
        ELSE IF r.ch.full
             THEN [Fput(r, <<extBcdToAscii(r.ch.data % Oct(100))>>)
                       EXCEPT !.ch.full = FALSE, !.word = r.ch.data]
             ELSE r

\* Fault: the disconnect does not terminate the line
lp1612Disconnect_NoNewline(m) == Call(m)

lp1612Disconnect(m) ==
    LET r == Call(m)
    IN  IF r.dp.fcb = NULL THEN r
        ELSE Fput(r, IF r.dp.context.extuseANSI THEN <<"\n", " ">> ELSE <<"\n">>)

(***************************************************************************)
(* 3000-series line printer: flags, function codes, status (lp3000.c).     *)
(* flags is the set of the bits that are set, each bit named by its mask.  *)
(***************************************************************************)
Lp3000Type501 == Oct(1)
Lp3000Type512 == Oct(2)
Lp3000Type3152 == Oct(10)
Lp3000Type3555 == Oct(20)
Lp3555FillImageMem == Oct(100)
Lp3000IntReady == Oct(200)
Lp3000IntEnd == Oct(400)
Lp3000IntReadyEna == Oct(2000)
Lp3000IntEndEna == Oct(4000)

FcPrintRelease == Oct(0)
FcPrintSingle == Oct(1)
FcPrintDouble == Oct(2)
FcPrintLastLine == Oct(3)
FcPrintEject == Oct(4)
FcPrintAutoEject == Oct(5)
FcPrintNoSpace == Oct(6)

Fc3152ClearFormat == Oct(10)
Fc3152SelectPreprint == Oct(20)
Fc3152SelIntReady == Oct(30)
Fc3152RelIntReady == Oct(31)
Fc3152SelIntEnd == Oct(32)
Fc3152RelIntEnd == Oct(33)

Fc3555Sel8Lpi == Oct(10)
Fc3555Sel6Lpi == Oct(11)
Fc3555FillMemory == Oct(12)
Fc3555SelIntReady == Oct(20)
Fc3555RelIntReady == Oct(21)
Fc3555SelIntEnd == Oct(22)
Fc3555RelIntEnd == Oct(23)
Fc3555ClearFormat == Oct(30)
Fc3555SelectPreprint == Oct(50)

LpInchesPerPage == Oct(11)

StPrintReady == Oct(1)
StPrintIntReady == Oct(200)
StPrintIntEnd == Oct(400)

\* function codes of the 6681 converter (dcc6681.h)
Fc6681DevStatusReq == Oct(1300)
Fc6681Output == Oct(1600)
Fc6681MasterClear == Oct(1700)

\* the 12-bit word with exactly the bits of a flag set
RECURSIVE BitsWord(_)
BitsWord(bits) ==
    IF bits = {} THEN 0
    ELSE LET b == CHOOSE x \in bits : TRUE IN b + BitsWord(bits \ {b})

U8Max == 255

U8(n) == n % (U8Max + 1)

\* dcc6681Interrupt((lc->flags & (Lp3000IntReady | Lp3000IntEnd)) != 0)
dcc6681Interrupt(r) ==
    [r EXCEPT !.irq = (r.dp.context.flags \cap {Lp3000IntReady, Lp3000IntEnd}) # {}]

(***************************************************************************)
(* lp3000Func, the codes common to both controllers and the 6681 codes.    *)
(***************************************************************************)
lp3000Defaults(lc) ==
    [lc EXCEPT !.extspaceopt = FcPrintSingle,
               !.extlpi = 6,
               !.extlpp = U8(LpInchesPerPage * 6),
               !.extcurline = 1,
               !.extsuppress = FALSE,
               !.extpostprint = TRUE]

lp3000MasterClear(r) ==
    Fput([r EXCEPT !.dp.context = lp3000Defaults(@), !.ret = FcProcessed],
         IF r.dp.context.extuseANSI THEN <<"1">> ELSE <<"\f">>)

\* Fault: Release leaves printed set
lp3000Release_KeepsPrinted(r, fails, reopenOK) ==
    LET c == [r EXCEPT !.dp.context.flags = @ \ {StPrintIntReady, StPrintIntEnd},
                       !.ret = FcProcessed]
    IN  IF r.dp.context.printed THEN lp3000RemovePaper(c, fails, reopenOK) ELSE c

lp3000Release(r, fails, reopenOK) ==
    LET c == [r EXCEPT !.dp.context.flags = @ \ {StPrintIntReady, StPrintIntEnd},
                       !.ret = FcProcessed]
    IN  IF r.dp.context.printed
        THEN [lp3000RemovePaper(c, fails, reopenOK) EXCEPT !.dp.context.printed = FALSE]
        ELSE c

\* Fault: Double advances the paper and the line counter by one line only
lp3000Space_DoubleAsSingle(r, funcCode) ==
    LET lc == r.dp.context
        s == [r EXCEPT !.dp.context.extspaceopt = funcCode, !.ret = FcProcessed]
        adv == [s EXCEPT !.dp.context.extcurline = U8(@ + 1)]
    IN  IF lc.extuseANSI
        THEN IF ~lc.extpostprint THEN Fput(adv, <<"\n", " ">>) ELSE s
        ELSE Fput(adv, <<"\n">>)

\* FcPrintSingle (lines = 1, ctl = " ") and FcPrintDouble (lines = 2, ctl = "0")
lp3000Space(r, funcCode) ==
    LET lc == r.dp.context
        lines == IF funcCode = FcPrintDouble THEN 2 ELSE 1
        s == [r EXCEPT !.dp.context.extspaceopt = funcCode, !.ret = FcProcessed]
        adv == [s EXCEPT !.dp.context.extcurline = U8(@ + lines)]
    IN  IF lc.extuseANSI
        THEN IF ~lc.extpostprint
             THEN Fput(adv, IF funcCode = FcPrintDouble THEN <<"\n", "0">> ELSE <<"\n", " ">>)
             ELSE s
        ELSE Fput(adv, IF funcCode = FcPrintDouble THEN <<"\n", "\n">> ELSE <<"\n">>)

lp3000LastLine(r) ==
    Fput([r EXCEPT !.dp.context.extcurline = U8(@ + 1), !.ret = FcProcessed],
         IF r.dp.context.extuseANSI THEN <<"\n", " ">> ELSE <<"\n">>)

lp3000Eject(r) ==
    Fput([r EXCEPT !.dp.context.extcurline = 1, !.ret = FcProcessed],
         IF r.dp.context.extuseANSI THEN <<"\n", "1">> ELSE <<"\f">>)

\* Fault: Output does not raise the end-of-operation interrupt
lp3000Output_NoIntEnd(r) ==
    LET fill == Lp3555FillImageMem \in r.dp.context.flags
        code == IF fill THEN Fc6681Output + 1 ELSE Fc6681Output
        f0 == (r.dp.context.flags \ {Lp3555FillImageMem})
                  \ {StPrintIntReady, StPrintIntEnd}
        f1 == IF Lp3000IntReadyEna \in f0 THEN f0 \cup {Lp3000IntReady} ELSE f0
    IN  [dcc6681Interrupt([r EXCEPT !.dp.context.flags = f1])
             EXCEPT !.dp.fcode = code, !.ret = FcAccepted]

lp3000Output(r) ==
    LET fill == Lp3555FillImageMem \in r.dp.context.flags
        code == IF fill THEN Fc6681Output + 1 ELSE Fc6681Output
        f0 == (r.dp.context.flags \ {Lp3555FillImageMem})
                  \ {StPrintIntReady, StPrintIntEnd}
        f1 == IF Lp3000IntReadyEna \in f0 THEN f0 \cup {Lp3000IntReady} ELSE f0
        f2 == IF Lp3000IntEndEna \in f1 THEN f1 \cup {Lp3000IntEnd} ELSE f1
    IN  [dcc6681Interrupt([r EXCEPT !.dp.context.flags = f2])
             EXCEPT !.dp.fcode = code, !.ret = FcAccepted]

lp3000DevStatusReq(r) ==
    [r EXCEPT !.dp.fcode = Fc6681DevStatusReq, !.ret = FcAccepted]

(***************************************************************************)
(* lp3000Func, interrupt selects (the same code for both controllers).     *)
(***************************************************************************)
\* Fault: the select never drops the latched bit
lp3000SelInt_AlwaysKeeps(r, int, ena) ==
    dcc6681Interrupt([r EXCEPT !.dp.context.flags = @ \cup {int, ena},
                               !.dp.context.keepInt = FALSE,
                               !.ret = FcProcessed])

lp3000SelInt(r, int, ena) ==
    LET set == [r EXCEPT !.dp.context.flags = @ \cup {int, ena}, !.ret = FcProcessed]
    IN  dcc6681Interrupt(IF r.dp.context.keepInt
                         THEN [set EXCEPT !.dp.context.keepInt = FALSE]
                         ELSE [set EXCEPT !.dp.context.flags = @ \ {int}])

\* Fault: the release clears the enable bit and leaves the latched bit
lp3000RelInt_KeepsLatched(r, int, ena) ==
    dcc6681Interrupt([r EXCEPT !.dp.context.flags = @ \ {ena}, !.ret = FcProcessed])

lp3000RelInt(r, int, ena) ==
    dcc6681Interrupt([r EXCEPT !.dp.context.flags = @ \ {ena, int},
                               !.ret = FcProcessed])

\* Fault: the 3555 pre-print VFU codes select pre-print mode as code 050 does
lp3000Sel3555_PreVFUSelectsPreprint(r, funcCode) ==
    LET p == [r EXCEPT !.ret = FcProcessed]
    IN  CASE funcCode = Fc3555Sel8Lpi ->
                 [p EXCEPT !.dp.context.extlpi = 8,
                           !.dp.context.extlpp = U8(LpInchesPerPage * 8)]
          [] funcCode = Fc3555Sel6Lpi ->
                 [p EXCEPT !.dp.context.extlpi = 6,
                           !.dp.context.extlpp = U8(LpInchesPerPage * 6)]
          [] funcCode = Fc3555ClearFormat ->
                 [p EXCEPT !.dp.context.extspaceopt = FcPrintSingle,
                           !.dp.context.extlpi = 6,
                           !.dp.context.extlpp = U8(LpInchesPerPage * 6),
                           !.dp.context.extsuppress = FALSE,
                           !.dp.context.extpostprint = TRUE]
          [] funcCode \in {Fc3555SelectPreprint} \cup Oct(51) .. Oct(64) ->
                 [p EXCEPT !.dp.context.extpostprint = FALSE]
          [] funcCode = Fc3555FillMemory ->
                 [p EXCEPT !.dp.context.flags = @ \cup {Lp3555FillImageMem}]
          [] funcCode = Fc3555SelIntReady ->
                 lp3000SelInt(r, Lp3000IntReady, Lp3000IntReadyEna)
          [] funcCode = Fc3555RelIntReady ->
                 lp3000RelInt(r, Lp3000IntReady, Lp3000IntReadyEna)
          [] funcCode = Fc3555SelIntEnd ->
                 lp3000SelInt(r, Lp3000IntEnd, Lp3000IntEndEna)
          [] funcCode = Fc3555RelIntEnd ->
                 lp3000RelInt(r, Lp3000IntEnd, Lp3000IntEndEna)
          [] OTHER -> p

lp3000Sel3555(r, funcCode) ==
    LET p == [r EXCEPT !.ret = FcProcessed]
    IN  CASE funcCode = Fc3555Sel8Lpi ->
                 [p EXCEPT !.dp.context.extlpi = 8,
                           !.dp.context.extlpp = U8(LpInchesPerPage * 8)]
          [] funcCode = Fc3555Sel6Lpi ->
                 [p EXCEPT !.dp.context.extlpi = 6,
                           !.dp.context.extlpp = U8(LpInchesPerPage * 6)]
          [] funcCode = Fc3555ClearFormat ->
                 [p EXCEPT !.dp.context.extspaceopt = FcPrintSingle,
                           !.dp.context.extlpi = 6,
                           !.dp.context.extlpp = U8(LpInchesPerPage * 6),
                           !.dp.context.extsuppress = FALSE,
                           !.dp.context.extpostprint = TRUE]
          [] funcCode = Fc3555SelectPreprint ->
                 [p EXCEPT !.dp.context.extpostprint = FALSE]
          [] funcCode = Fc3555FillMemory ->
                 [p EXCEPT !.dp.context.flags = @ \cup {Lp3555FillImageMem}]
          [] funcCode = Fc3555SelIntReady ->
                 lp3000SelInt(r, Lp3000IntReady, Lp3000IntReadyEna)
          [] funcCode = Fc3555RelIntReady ->
                 lp3000RelInt(r, Lp3000IntReady, Lp3000IntReadyEna)
          [] funcCode = Fc3555SelIntEnd ->
                 lp3000SelInt(r, Lp3000IntEnd, Lp3000IntEndEna)
          [] funcCode = Fc3555RelIntEnd ->
                 lp3000RelInt(r, Lp3000IntEnd, Lp3000IntEndEna)
          \* CondClearFormat, ext array, IntError, ReloadMemEnable, the VFU
          \* codes, MaintStatus, ClearMaint and every unknown code
          [] OTHER -> p

\* Fault: a code the 3152 controller does not know is declined
lp3000Sel3152_DeclinesUnknown(r, funcCode) ==
    LET p == [r EXCEPT !.ret = FcProcessed]
    IN  CASE funcCode = Fc3152ClearFormat ->
                 [p EXCEPT !.dp.context.extpostprint = TRUE]
          [] funcCode = Fc3152SelectPreprint ->
                 [p EXCEPT !.dp.context.extpostprint = FALSE]
          [] funcCode = Fc3152SelIntReady ->
                 lp3000SelInt(r, Lp3000IntReady, Lp3000IntReadyEna)
          [] funcCode = Fc3152RelIntReady ->
                 lp3000RelInt(r, Lp3000IntReady, Lp3000IntReadyEna)
          [] funcCode = Fc3152SelIntEnd ->
                 lp3000SelInt(r, Lp3000IntEnd, Lp3000IntEndEna)
          [] funcCode = Fc3152RelIntEnd ->
                 lp3000RelInt(r, Lp3000IntEnd, Lp3000IntEndEna)
          [] funcCode \in Oct(11) .. Oct(16) \cup Oct(21) .. Oct(26)
                          \cup {Oct(34), Oct(35), Oct(40)} -> p
          [] OTHER -> [r EXCEPT !.ret = FcDeclined]

lp3000Sel3152(r, funcCode) ==
    LET p == [r EXCEPT !.ret = FcProcessed]
    IN  CASE funcCode = Fc3152ClearFormat ->
                 [p EXCEPT !.dp.context.extpostprint = TRUE]
          [] funcCode = Fc3152SelectPreprint ->
                 [p EXCEPT !.dp.context.extpostprint = FALSE]
          [] funcCode = Fc3152SelIntReady ->
                 lp3000SelInt(r, Lp3000IntReady, Lp3000IntReadyEna)
          [] funcCode = Fc3152RelIntReady ->
                 lp3000RelInt(r, Lp3000IntReady, Lp3000IntReadyEna)
          [] funcCode = Fc3152SelIntEnd ->
                 lp3000SelInt(r, Lp3000IntEnd, Lp3000IntEndEna)
          [] funcCode = Fc3152RelIntEnd ->
                 lp3000RelInt(r, Lp3000IntEnd, Lp3000IntEndEna)
          \* the VFU codes, IntError, Release2 and every unknown code
          [] OTHER -> p

lp3000Func(m, funcCode, fails, reopenOK) ==
    LET r == Call(m)
    IN  IF r.dp.fcb = NULL THEN [r EXCEPT !.ret = FcProcessed]
        ELSE CASE funcCode = FcPrintNoSpace ->
                      [r EXCEPT !.dp.context.extsuppress = TRUE, !.ret = FcProcessed]
               [] funcCode = FcPrintAutoEject -> [r EXCEPT !.ret = FcProcessed]
               [] funcCode = Fc6681MasterClear -> lp3000MasterClear(r)
               [] funcCode = FcPrintRelease -> lp3000Release(r, fails, reopenOK)
               [] funcCode \in {FcPrintSingle, FcPrintDouble} -> lp3000Space(r, funcCode)
               [] funcCode = FcPrintLastLine -> lp3000LastLine(r)
               [] funcCode = FcPrintEject -> lp3000Eject(r)
               [] funcCode = Fc6681Output -> lp3000Output(r)
               [] funcCode = Fc6681DevStatusReq -> lp3000DevStatusReq(r)
               [] OTHER -> IF Lp3000Type3555 \in r.dp.context.flags
                           THEN lp3000Sel3555(r, funcCode)
                           ELSE lp3000Sel3152(r, funcCode)

(***************************************************************************)
(* lp3000Io and lp3000Disconnect.                                          *)
(***************************************************************************)
\* Fault: the data path clears fcode as the status path does
lp3000IoOutput_ClearsFcode(r) ==
    IF r.ch.full
    THEN [Fput(r, IF Lp3000Type501 \in r.dp.context.flags
                  THEN <<bcdToAscii(Hi6(r.ch.data)), bcdToAscii(Lo6(r.ch.data))>>
                  ELSE <<Chr(r.ch.data % Oct(400))>>)
              EXCEPT !.ch.full = FALSE,
                     !.dp.context.printed = TRUE,
                     !.dp.context.keepInt = TRUE,
                     !.dp.fcode = 0,
                     !.word = r.ch.data]
    ELSE r

lp3000IoOutput(r) ==
    IF r.ch.full
    THEN [Fput(r, IF Lp3000Type501 \in r.dp.context.flags
                  THEN <<bcdToAscii(Hi6(r.ch.data)), bcdToAscii(Lo6(r.ch.data))>>
                  ELSE <<Chr(r.ch.data % Oct(400))>>)
              EXCEPT !.ch.full = FALSE,
                     !.dp.context.printed = TRUE,
                     !.dp.context.keepInt = TRUE,
                     !.word = r.ch.data]
    ELSE r

\* Fault: the status word is built from the interrupt bits alone
lp3000IoStatus_NoReady(r) ==
    [r EXCEPT !.ch.data = BitsWord(r.dp.context.flags \cap {StPrintIntReady, StPrintIntEnd}),
              !.ch.full = TRUE,
              !.dp.fcode = 0,
              !.reply = TRUE]

\* Fault: the status word carries every bit of flags
lp3000IoStatus_AllFlags(r) ==
    [r EXCEPT !.ch.data = BitsWord({StPrintReady} \cup r.dp.context.flags),
              !.ch.full = TRUE,
              !.dp.fcode = 0,
              !.reply = TRUE]

lp3000IoStatus(r) ==
    [r EXCEPT !.ch.data = BitsWord({StPrintReady} \cup
                              (r.dp.context.flags \cap {StPrintIntReady, StPrintIntEnd})),
              !.ch.full = TRUE,
              !.dp.fcode = 0,
              !.reply = TRUE]

\* Fault: the image-memory data is printed like any other data
lp3000Io_PrintsImage(m) ==
    LET r == Call(m)
    IN  IF r.dp.fcb = NULL THEN r
        ELSE CASE r.dp.fcode \in {Fc6681Output, Fc6681Output + 1} -> lp3000IoOutput(r)
               [] r.dp.fcode = Fc6681DevStatusReq -> lp3000IoStatus(r)
               [] OTHER -> [r EXCEPT !.ch.full = FALSE]

lp3000Io(m) ==
    LET r == Call(m)
    IN  IF r.dp.fcb = NULL THEN r
        ELSE CASE r.dp.fcode = Fc6681Output -> lp3000IoOutput(r)
               [] r.dp.fcode = Fc6681Output + 1 -> [r EXCEPT !.ch.full = FALSE]
               [] r.dp.fcode = Fc6681DevStatusReq -> lp3000IoStatus(r)
               [] OTHER -> [r EXCEPT !.ch.full = FALSE]

\* Fault: the post-print advance leaves the spacing option selected
lp3000PostPrint_KeepsSpaceOpt(r) ==
    LET lc == r.dp.context
        double == lc.extspaceopt = FcPrintDouble
        text == IF double
                THEN IF lc.extuseANSI THEN <<"\n", "0">> ELSE <<"\n", "\n">>
                ELSE IF lc.extuseANSI THEN <<"\n", " ">> ELSE <<"\n">>
    IN  Fput([r EXCEPT !.dp.context.extcurline = U8(@ + (IF double THEN 2 ELSE 1))],
             text)

lp3000PostPrint(r) ==
    LET lc == r.dp.context
        double == lc.extspaceopt = FcPrintDouble
        text == IF double
                THEN IF lc.extuseANSI THEN <<"\n", "0">> ELSE <<"\n", "\n">>
                ELSE IF lc.extuseANSI THEN <<"\n", " ">> ELSE <<"\n">>
    IN  Fput([r EXCEPT !.dp.context.extcurline = U8(@ + (IF double THEN 2 ELSE 1)),
                       !.dp.context.extspaceopt = FcPrintSingle],
             text)

\* Fault: the disconnect spaces the paper although NoSpace was selected
lp3000Disconnect_IgnoresSuppress(m) ==
    LET r == Call(m)
        lc == r.dp.context
    IN  IF r.dp.fcb = NULL THEN r
        ELSE IF r.dp.fcode = Fc6681Output
             THEN [(IF lc.extpostprint THEN lp3000PostPrint(r) ELSE Fput(r, <<"\t">>))
                       EXCEPT !.dp.context.extsuppress = FALSE, !.dp.fcode = 0]
        ELSE r

\* Fault: the disconnect of an Output function leaves fcode latched
lp3000Disconnect_KeepsFcode(m) ==
    LET r == Call(m)
        lc == r.dp.context
    IN  IF r.dp.fcb = NULL THEN r
        ELSE IF r.dp.fcode = Fc6681Output
             THEN IF lc.extsuppress
                  THEN Fput([r EXCEPT !.dp.context.extsuppress = FALSE],
                            IF lc.extuseANSI THEN <<"\n", "+">> ELSE <<"\r">>)
                  ELSE IF lc.extpostprint THEN lp3000PostPrint(r)
                  ELSE Fput(r, <<"\t">>)
        ELSE r

\* Fault: the overprint disconnect leaves extsuppress set
lp3000Disconnect_KeepsSuppress(m) ==
    LET r == Call(m)
        lc == r.dp.context
        done == IF lc.extsuppress
                THEN Fput(r, IF lc.extuseANSI THEN <<"\n", "+">> ELSE <<"\r">>)
                ELSE IF lc.extpostprint
                     THEN lp3000PostPrint(r)
                     ELSE Fput(r, <<"\t">>)
    IN  IF r.dp.fcb = NULL THEN r
        ELSE IF r.dp.fcode = Fc6681Output THEN [done EXCEPT !.dp.fcode = 0]
        ELSE r

lp3000Disconnect(m) ==
    LET r == Call(m)
        lc == r.dp.context
        done == IF lc.extsuppress
                THEN Fput([r EXCEPT !.dp.context.extsuppress = FALSE],
                          IF lc.extuseANSI THEN <<"\n", "+">> ELSE <<"\r">>)
                ELSE IF lc.extpostprint
                     THEN lp3000PostPrint(r)
                     ELSE Fput(r, <<"\t">>)
    IN  IF r.dp.fcb = NULL THEN r
        ELSE IF r.dp.fcode = Fc6681Output THEN [done EXCEPT !.dp.fcode = 0]
        ELSE r

(***************************************************************************)
(* 6612 console (console.c).  The window layer (windowSetFont, windowSetX, *)
(* windowSetY, windowQueue, windowUpdate) keeps its state outside the      *)
(* emulation core and is not part of the machine state.                    *)
(***************************************************************************)
Fc6612Sel64CharLeft == Oct(7000)
Fc6612Sel32CharLeft == Oct(7001)
Fc6612Sel16CharLeft == Oct(7002)
Fc6612Sel512DotsLeft == Oct(7010)
Fc6612Sel512DotsRight == Oct(7110)
Fc6612SelKeyIn == Oct(7020)
Fc6612Sel64CharRight == Oct(7100)
Fc6612Sel32CharRight == Oct(7101)
Fc6612Sel16CharRight == Oct(7102)

KeyBufSize == 50

FontDot == "FontDot"
FontSmall == "FontSmall"
FontMedium == "FontMedium"
FontLarge == "FontLarge"
OffLeftScreen == "OffLeftScreen"
OffRightScreen == "OffRightScreen"

Fc6612CharCodes == {Fc6612Sel64CharLeft, Fc6612Sel32CharLeft, Fc6612Sel16CharLeft,
                    Fc6612Sel64CharRight, Fc6612Sel32CharRight, Fc6612Sel16CharRight}
Fc6612DotCodes == {Fc6612Sel512DotsLeft, Fc6612Sel512DotsRight}

consoleFont(funcCode) ==
    CASE funcCode \in Fc6612DotCodes -> FontDot
      [] funcCode \in {Fc6612Sel64CharLeft, Fc6612Sel64CharRight} -> FontSmall
      [] funcCode \in {Fc6612Sel32CharLeft, Fc6612Sel32CharRight} -> FontMedium
      [] OTHER -> FontLarge

consoleOffset(funcCode) ==
    IF funcCode \in {Fc6612Sel512DotsLeft, Fc6612Sel64CharLeft,
                     Fc6612Sel32CharLeft, Fc6612Sel16CharLeft}
    THEN OffLeftScreen ELSE OffRightScreen

\* Fault: a declined code drops the function code latched before it
consoleFunc_DeclineClearsFcode(m, funcCode) ==
    LET r == [Call(m) EXCEPT !.ch.full = FALSE]
    IN  IF funcCode \in Fc6612CharCodes \cup Fc6612DotCodes
        THEN [r EXCEPT !.con.currentFont = consoleFont(funcCode),
                       !.con.currentOffset = consoleOffset(funcCode),
                       !.dp.fcode = funcCode,
                       !.ret = FcAccepted]
        ELSE IF funcCode = Fc6612SelKeyIn
             THEN [r EXCEPT !.dp.fcode = funcCode, !.ret = FcAccepted]
             ELSE [r EXCEPT !.dp.fcode = 0, !.ret = FcDeclined]

consoleFunc(m, funcCode) ==
    LET r == [Call(m) EXCEPT !.ch.full = FALSE]
    IN  IF funcCode \in Fc6612CharCodes \cup Fc6612DotCodes
        THEN [r EXCEPT !.con.currentFont = consoleFont(funcCode),
                       !.con.currentOffset = consoleOffset(funcCode),
                       !.dp.fcode = funcCode,
                       !.ret = FcAccepted]
        ELSE IF funcCode = Fc6612SelKeyIn
             THEN [r EXCEPT !.dp.fcode = funcCode, !.ret = FcAccepted]
             ELSE [r EXCEPT !.ret = FcDeclined]

\* Fault: the key is stored without the test for a full ring
consoleQueueKey_NoFullCheck(con, ch) ==
    LET nextin == IF con.keyIn + 1 = KeyBufSize THEN 0 ELSE con.keyIn + 1
    IN  [con EXCEPT !.keyRing[con.keyIn] = ch, !.keyIn = nextin]

\* consoleQueueKey on the console globals
consoleQueueKey(con, ch) ==
    LET nextin == IF con.keyIn + 1 = KeyBufSize THEN 0 ELSE con.keyIn + 1
    IN  IF nextin # con.keyOut
        THEN [con EXCEPT !.keyRing[con.keyIn] = ch, !.keyIn = nextin]
        ELSE con

\* Fault: every call on a non-empty ring delivers a key
consoleGetKey_NoThrottle(con) ==
    LET loops == (con.keyloops + 1) % 3
        nextout == IF con.keyOut + 1 = KeyBufSize THEN 0 ELSE con.keyOut + 1
    IN  IF con.keyIn = con.keyOut THEN [con |-> con, key |-> 0]
        ELSE [con |-> [con EXCEPT !.keyloops = loops, !.keyOut = nextout],
              key |-> con.keyRing[con.keyOut]]

\* consoleGetKey: the console globals after the call and the key returned.
\* keyloops is kept modulo 3, the only way the code reads it.
consoleGetKey(con) ==
    LET loops == (con.keyloops + 1) % 3
        nextout == IF con.keyOut + 1 = KeyBufSize THEN 0 ELSE con.keyOut + 1
    IN  IF con.keyIn = con.keyOut THEN [con |-> con, key |-> 0]
        ELSE IF loops # 1 THEN [con |-> [con EXCEPT !.keyloops = loops], key |-> 0]
        ELSE [con |-> [con EXCEPT !.keyloops = loops, !.keyOut = nextout],
              key |-> con.keyRing[con.keyOut]]

RECURSIVE QueueKeys(_, _)
QueueKeys(con, keys) ==
    IF keys = <<>> THEN con
    ELSE QueueKeys(consoleQueueKey(con, asciiToConsole(Head(keys))), Tail(keys))

\* strftime(ts, "%y%m%d\n%H%M%S\n") with the year overridden by autoYearString;
\* now is the twelve digits the clock gives
autoDateKeys(con, now) ==
    LET ts == SubSeq(now, 1, 6) \o <<"\n">> \o SubSeq(now, 7, 12) \o <<"\n">>
    IN  CStr([ts EXCEPT ![1] = StrAt(con.autoYearString, 0),
                        ![2] = StrAt(con.autoYearString, 1)])

\* Fault: a full match that finds typeahead in the ring leaves autoDate set
consoleAutoDate_KeepsOnTypeahead(con, fcode, data, now) ==
    LET str == con.autoDateString
        pos == con.autoPos
    IN  IF ~con.autoDate THEN con
        ELSE IF /\ fcode \in {Fc6612Sel32CharLeft, Fc6612Sel32CharRight}
                /\ Hi6(data) = asciiToCdc(StrAt(str, pos))
                /\ Lo6(data) = asciiToCdc(StrAt(str, pos + 1))
             THEN IF StrAt(str, pos + 1) = NUL \/ StrAt(str, pos + 2) = NUL
                  THEN IF con.keyOut = con.keyIn
                       THEN QueueKeys([con EXCEPT !.autoDate = FALSE],
                                      autoDateKeys(con, now))
                       ELSE con
                  ELSE [con EXCEPT !.autoPos = pos + 2]
             ELSE [con EXCEPT !.autoPos = 0]

\* the auto date check of consoleIo for one character word
consoleAutoDate(con, fcode, data, now) ==
    LET str == con.autoDateString
        pos == con.autoPos
    IN  IF ~con.autoDate THEN con
        ELSE IF /\ fcode \in {Fc6612Sel32CharLeft, Fc6612Sel32CharRight}
                /\ Hi6(data) = asciiToCdc(StrAt(str, pos))
                /\ Lo6(data) = asciiToCdc(StrAt(str, pos + 1))
             THEN IF StrAt(str, pos + 1) = NUL \/ StrAt(str, pos + 2) = NUL
                  THEN IF con.keyOut = con.keyIn
                       THEN QueueKeys([con EXCEPT !.autoDate = FALSE],
                                      autoDateKeys(con, now))
                       ELSE [con EXCEPT !.autoDate = FALSE]
                  ELSE [con EXCEPT !.autoPos = pos + 2]
             ELSE [con EXCEPT !.autoPos = 0]

\* Fault: the ring is polled in every key-in cycle, a host key pending or not
consoleIoKeyIn_AlwaysDequeues(r, hostKey) ==
    LET got == consoleGetKey(r.con)
        fromHost == asciiToConsole(hostKey)
    IN  [r EXCEPT !.ch = [data |-> IF fromHost = 0 THEN got.key ELSE fromHost,
                          full |-> TRUE, status |-> 0],
                  !.con = [got.con EXCEPT !.ppKeyIn = NUL],
                  !.dp.fcode = 0,
                  !.reply = TRUE]

consoleIoKeyIn(r, hostKey) ==
    LET got == consoleGetKey(r.con)
        fromHost == asciiToConsole(hostKey)
    IN  [r EXCEPT !.ch = [data |-> IF fromHost = 0 THEN got.key ELSE fromHost,
                          full |-> TRUE, status |-> 0],
                  !.con = IF fromHost = 0
                          THEN [got.con EXCEPT !.ppKeyIn = NUL]
                          ELSE [r.con EXCEPT !.ppKeyIn = NUL],
                  !.dp.fcode = 0,
                  !.reply = TRUE]

\* hostKey is the key windowGetChar leaves in ppKeyIn (NUL: none)
consoleIo(m, hostKey, now) ==
    LET r == Call(m)
    IN  CASE r.dp.fcode \in Fc6612CharCodes ->
                 IF r.ch.full
                 THEN [r EXCEPT !.con = consoleAutoDate([r.con EXCEPT !.emptyDrop = FALSE],
                                                        r.dp.fcode, r.ch.data, now),
                                !.ch.full = FALSE,
                                !.word = r.ch.data]
                 ELSE r
          [] r.dp.fcode \in Fc6612DotCodes ->
                 IF r.ch.full
                 THEN [r EXCEPT !.con.emptyDrop = FALSE,
                                !.ch.full = FALSE,
                                !.word = r.ch.data]
                 ELSE r
          [] r.dp.fcode = Fc6612SelKeyIn -> consoleIoKeyIn(r, hostKey)
          [] OTHER -> r

consoleActivate(m) == [Call(m) EXCEPT !.con.emptyDrop = TRUE]

consoleDisconnect(m) == [Call(m) EXCEPT !.con.emptyDrop = FALSE]

(***************************************************************************)
(* State.                                                                  *)
(*   activeDevice, activeChannel, fs, con, irq: the machine state above    *)
(*   last:  the most recent step and what it reported                      *)
(*   txn:   "open" from a func that returned Accepted until the next       *)
(*          disconnect, "replied" once an io of that transaction placed a  *)
(*          reply on the channel, "idle" otherwise                         *)
(*   rel:   "released" after a Release function call with no Output data   *)
(*          word printed since, "again" after a further such call,         *)
(*          "output" after a data word was printed, "none" before          *)
(*   trace: the callbacks made so far (recorded when env.tracing)          *)
(*   env:   what the PP program and the host may do in this exploration:   *)
(*          the function codes and data words issued, the host keys, the   *)
(*          clock readings, the rename and fopen outcomes, and the caps    *)
(***************************************************************************)
VARIABLES activeDevice, activeChannel, fs, con, irq, last, txn, rel, trace, env,
          race

vars == <<activeDevice, activeChannel, fs, con, irq, last, txn, rel, trace, env,
          race>>

M == [dp |-> activeDevice, ch |-> activeChannel, fs |-> fs, con |-> con, irq |-> irq]

(***************************************************************************)
(* Dispatch through the slot's callback pointers.                          *)
(***************************************************************************)
DevFunc(m, funcCode, fails, reopenOK) ==
    CASE m.dp.deviceType = DtConsole -> consoleFunc(m, funcCode)
      [] m.dp.deviceType = DtLp1612 -> lp1612Func(m, funcCode)
      [] m.dp.deviceType = DtLp5xx -> lp3000Func(m, funcCode, fails, reopenOK)

DevIo(m, hostKey, now) ==
    CASE m.dp.deviceType = DtConsole -> consoleIo(m, hostKey, now)
      [] m.dp.deviceType = DtLp1612 -> lp1612Io(m)
      [] m.dp.deviceType = DtLp5xx -> lp3000Io(m)

DevActivate(m) ==
    IF m.dp.deviceType = DtConsole THEN consoleActivate(m) ELSE Call(m)

DevDisconnect(m) ==
    CASE m.dp.deviceType = DtConsole -> consoleDisconnect(m)
      [] m.dp.deviceType = DtLp1612 -> lp1612Disconnect(m)
      [] m.dp.deviceType = DtLp5xx -> lp3000Disconnect(m)

DevRemovePaper(m, fails, reopenOK) ==
    IF m.dp.deviceType = DtLp1612
    THEN lp1612RemovePaper(Call(m), fails, reopenOK)
    ELSE lp3000RemovePaper(Call(m), fails, reopenOK)

(***************************************************************************)
(* One step: the machine state after the call, the record of the call, the *)
(* history variables, and the caps of the exploration.                     *)
(***************************************************************************)
TxnAfter(op, r) ==
    CASE op = "func" /\ r.ret = FcAccepted -> "open"
      [] op = "io" /\ r.reply /\ txn = "open" -> "replied"
      [] op = "disconnect" -> "idle"
      [] OTHER -> txn

RelAfter(op, code, r) ==
    CASE r.dp.deviceType # DtLp5xx -> rel
      [] op = "func" /\ code = FcPrintRelease ->
             IF rel \in {"released", "again"} THEN "again" ELSE "released"
      [] op = "io" /\ r.word # NoWord -> "output"
      [] OTHER -> rel

Step(r, op, code) ==
    /\ env.tracing => Len(trace) < env.maxTrace
    /\ Len(r.fs.active) <= env.maxFile
    /\ r.dp.deviceType = DtLp5xx => r.dp.context.extcurline <= env.maxLine
    /\ activeDevice' = r.dp
    /\ activeChannel' = r.ch
    /\ fs' = r.fs
    /\ con' = r.con
    /\ irq' = r.irq
    /\ last' = [op |-> op, code |-> code, ret |-> r.ret, reply |-> r.reply,
                word |-> r.word, host |-> r.host]
    /\ txn' = TxnAfter(op, r)
    /\ rel' = RelAfter(op, code, r)
    /\ trace' = IF env.tracing THEN Append(trace, last') ELSE trace
    /\ UNCHANGED env

\* a callback or an operator command that runs from entry to return with no
\* other thread in between
Commit(r, op, code) == Step(r, op, code) /\ UNCHANGED race

\* a step of the PP or of the window thread: no device callback runs
EnvStep(op, word, ret) ==
    /\ last' = [op |-> op, code |-> 0, ret |-> ret, reply |-> FALSE,
                word |-> word, host |-> NoHost]
    /\ UNCHANGED <<activeDevice, fs, irq, txn, rel, trace, env, race>>

(***************************************************************************)
(* Actions.                                                                *)
(***************************************************************************)
PpFunc ==
    \E funcCode \in env.codes, fails \in env.fails, reopenOK \in env.reopen :
        Commit(DevFunc(M, funcCode, fails, reopenOK), "func", funcCode)

\* the PP puts a data word on the empty channel
PpOutput ==
    \E w \in env.words :
        /\ ~activeChannel.full
        /\ activeChannel' = [activeChannel EXCEPT !.data = w, !.full = TRUE]
        /\ EnvStep("ppOut", w, NoRet)
        /\ UNCHANGED con

\* the PP takes the word a device left on the channel
PpInput ==
    /\ activeChannel.full
    /\ activeChannel' = [activeChannel EXCEPT !.full = FALSE]
    /\ EnvStep("ppIn", activeChannel.data, NoRet)
    /\ UNCHANGED con

Io ==
    \E hostKey \in env.hostKeys, now \in env.times :
        Commit(DevIo(M, hostKey, now), "io", activeDevice.fcode)

Activate == Commit(DevActivate(M), "activate", 0)

Disconnect == Commit(DevDisconnect(M), "disconnect", activeDevice.fcode)

RemovePaper ==
    \E fails \in env.fails, reopenOK \in env.reopen :
        /\ activeDevice.deviceType \in {DtLp1612, DtLp5xx}
        /\ Commit(DevRemovePaper(M, fails, reopenOK), "removePaper", 0)

\* the window thread queues a key
QueueKey ==
    \E ch \in env.keys :
        /\ (con.keyIn + KeyBufSize - con.keyOut) % KeyBufSize < env.maxKeys
        /\ con' = consoleQueueKey(con, ch)
        /\ EnvStep("queueKey", ch,
                   IF consoleQueueKey(con, ch) = con THEN "dropped" ELSE "queued")
        /\ UNCHANGED activeChannel

\* a direct call of consoleGetKey
GetKey ==
    /\ con' = consoleGetKey(con).con
    /\ EnvStep("getKey", consoleGetKey(con).key, NoRet)
    /\ UNCHANGED activeChannel

(***************************************************************************)
(* The statements of lp3000RemovePaper and of lp3000Io as separate steps:  *)
(* the operator command runs on its own thread and neither function takes  *)
(* a lock.  race.rp is the position of the operator thread in              *)
(* lp3000RemovePaper, race.io the position of the emulator thread in       *)
(* lp3000Io, race.local its local variable fcb.  race.fcbClosed and        *)
(* race.localClosed tell that the FILE which fcb[0], respectively the      *)
(* local, points to has been passed to fclose().  A write through such a   *)
(* FILE, or through a null pointer, is undefined: the bytes land in the    *)
(* file, or are lost, or the emulator crashes.                             *)
(***************************************************************************)
Crash ==
    /\ race' = [race EXCEPT !.crashed = TRUE, !.io = "idle"]
    /\ UNCHANGED <<activeDevice, activeChannel, fs, con, irq, last, txn, rel, trace, env>>

\* the emulator thread returns from a callback whose result is r; handle is
\* the FILE pointer the callback wrote through, closed whether that FILE has
\* been closed, after the position of the thread when the callback returns
RaceReturn(r, op, code, handle, closed) ==
    LET after == [race EXCEPT !.io = "idle", !.local = NULL, !.localClosed = FALSE]
    IN  IF r.fs = fs \/ (handle # NULL /\ ~closed)
        THEN Step(r, op, code) /\ race' = after
        ELSE \E outcome \in {"written", "lost", "crash"} :
                 CASE outcome = "written" /\ handle # NULL ->
                          /\ Step(r, op, code)
                          /\ race' = [after EXCEPT !.staleWrite = TRUE,
                                                   !.renameWrite = @ \/ race.rp = "renaming"]
                   [] outcome = "lost" ->
                          /\ Step([r EXCEPT !.fs = fs], op, code)
                          /\ race' = [after EXCEPT !.staleWrite = @ \/ handle # NULL]
                   [] OTHER -> Crash

\* lp3000RemovePaper up to the fclose: the null test, fflush, ftell
RpBegin ==
    \E fails \in env.fails, reopenOK \in env.reopen :
        /\ race.rp = "idle"
        /\ ~race.crashed
        /\ IF activeDevice.fcb = NULL \/ Len(fs.active) = 0
           THEN Commit(Call(M), "removePaper", 0)
           ELSE /\ Step(Call(M), "rpBegin", 0)
                /\ race' = [race EXCEPT !.rp = "open", !.fails = fails,
                                        !.reopenOK = reopenOK]

\* fclose(dp->fcb[0])
RpClose ==
    /\ race.rp = "open"
    /\ ~race.crashed
    /\ Step(Call(M), "rpClose", 0)
    /\ race' = [race EXCEPT !.rp = "closed", !.fcbClosed = TRUE,
                            !.localClosed = @ \/ (race.io = "loaded" /\ race.local # NULL)]

\* dp->fcb[0] = NULL
RpNull ==
    /\ race.rp = "closed"
    /\ ~race.crashed
    /\ Step([Call(M) EXCEPT !.dp.fcb = NULL], "rpNull", 0)
    /\ race' = [race EXCEPT !.rp = "renaming", !.fcbClosed = FALSE, !.isuffix = 0]

\* one pass of the rename loop
RpRename ==
    /\ race.rp = "renaming"
    /\ ~race.crashed
    /\ IF race.isuffix < RenameAttempts
       THEN IF race.fails = 0
            THEN /\ Step([Call(M) EXCEPT
                              !.fs.active = <<>>,
                              !.host = [NoHost EXCEPT !.renames = race.isuffix + 1,
                                                      !.renamed = TRUE,
                                                      !.closed = TRUE,
                                                      !.archived = fs.active]],
                         "rpRename", 0)
                 /\ race' = [race EXCEPT !.rp = "reopen"]
            ELSE /\ Step(Call(M), "rpRename", 0)
                 /\ race' = [race EXCEPT !.isuffix = @ + 1, !.fails = @ - 1]
       ELSE /\ Step(Call(M), "rpRename", 0)
            /\ race' = [race EXCEPT !.rp = "reopen"]

\* dp->fcb[0] = fopen(fname, "w") and the return
RpReopen ==
    /\ race.rp = "reopen"
    /\ ~race.crashed
    /\ Step([Call(M) EXCEPT !.fs.active = IF race.reopenOK THEN <<>> ELSE @,
                            !.dp.fcb = IF race.reopenOK THEN OPEN ELSE NULL,
                            !.host = [NoHost EXCEPT !.closed = TRUE,
                                                    !.opened = race.reopenOK]],
            "removePaper", 0)
    /\ race' = [race EXCEPT !.rp = "idle", !.isuffix = 0, !.fails = 0,
                            !.reopenOK = TRUE]

\* lp3000Io: the test of fcb[0] against NULL
IoCheck ==
    /\ race.io = "idle"
    /\ ~race.crashed
    /\ IF activeDevice.fcb = NULL
       THEN Commit(lp3000Io(M), "io", activeDevice.fcode)
       ELSE /\ Step(Call(M), "ioCheck", activeDevice.fcode)
            /\ race' = [race EXCEPT !.io = "checked"]

\* lp3000Io: fcb = active3000Device->fcb[0]
IoLoad ==
    /\ race.io = "checked"
    /\ ~race.crashed
    /\ Step(Call(M), "ioLoad", activeDevice.fcode)
    /\ race' = [race EXCEPT !.io = "loaded", !.local = activeDevice.fcb,
                            !.localClosed = race.fcbClosed]

\* lp3000Io: the switch on fcode, writing through the local fcb
IoWrite ==
    /\ race.io = "loaded"
    /\ ~race.crashed
    /\ RaceReturn([lp3000Io([M EXCEPT !.dp.fcb = OPEN]) EXCEPT !.dp.fcb = activeDevice.fcb],
                  "io", activeDevice.fcode, race.local, race.localClosed)

\* the PP issues a function or a data word between two io callbacks
RaceFunc ==
    \E funcCode \in env.codes :
        /\ race.io = "idle"
        /\ ~race.crashed
        /\ RaceReturn(lp3000Func(M, funcCode, 0, TRUE), "func", funcCode,
                      activeDevice.fcb, race.fcbClosed)

RaceOutput == race.io = "idle" /\ ~race.crashed /\ PpOutput

RaceDisconnect ==
    /\ race.io = "idle"
    /\ ~race.crashed
    /\ RaceReturn(lp3000Disconnect(M), "disconnect", activeDevice.fcode,
                  activeDevice.fcb, race.fcbClosed)

(***************************************************************************)
(* The statements of consoleQueueKey and of consoleGetKey as separate      *)
(* steps, one for every read or write of keyIn, keyOut or a ring slot that *)
(* the other thread can observe: the window thread runs consoleQueueKey,   *)
(* the emulator thread consoleGetKey, and neither takes a lock.  race.qk   *)
(* is the position of the window thread, race.nextin and race.ch its       *)
(* locals; race.gk is the position of the emulator thread, race.key its    *)
(* local (nextout is computed from keyOut, which only this thread writes). *)
(* race.queued lists the keys consoleQueueKey has stored and published,    *)
(* race.got the non-zero keys consoleGetKey has returned.  The window      *)
(* thread types the keys 1, 2, 3, 1, ... so that neighbouring keys, and    *)
(* the keys a slot holds in successive laps of the ring, differ.           *)
(***************************************************************************)
KeyStep(op, word, ret) ==
    /\ last' = [op |-> op, code |-> 0, ret |-> ret, reply |-> FALSE,
                word |-> word, host |-> NoHost]
    /\ UNCHANGED <<activeDevice, activeChannel, fs, irq, txn, rel, trace, env>>

\* consoleQueueKey: nextin = keyIn + 1, wrapped
QkReadIn ==
    /\ race.qk = "idle"
    /\ Len(race.queued) < MaxRingKeys
    /\ race' = [race EXCEPT !.qk = "test",
                            !.ch = (Len(race.queued) % 3) + 1,
                            !.nextin = IF con.keyIn + 1 = KeyBufSize THEN 0
                                       ELSE con.keyIn + 1]
    /\ KeyStep("qkReadIn", (Len(race.queued) % 3) + 1, NoRet)
    /\ UNCHANGED con

\* consoleQueueKey: if (nextin != keyOut); the key is dropped otherwise
QkTest ==
    /\ race.qk = "test"
    /\ race' = [race EXCEPT !.qk = IF race.nextin # con.keyOut THEN "store" ELSE "idle"]
    /\ KeyStep(IF race.nextin # con.keyOut THEN "qkTest" ELSE "queueKey",
               race.ch, IF race.nextin # con.keyOut THEN NoRet ELSE "dropped")
    /\ UNCHANGED con

\* consoleQueueKey: keyRing[keyIn] = ch
QkStore ==
    /\ race.qk = "store"
    /\ con' = [con EXCEPT !.keyRing[con.keyIn] = race.ch]
    /\ race' = [race EXCEPT !.qk = "publish"]
    /\ KeyStep("qkStore", race.ch, NoRet)

\* consoleQueueKey: keyIn = nextin
QkPublish ==
    /\ race.qk = "publish"
    /\ con' = [con EXCEPT !.keyIn = race.nextin]
    /\ race' = [race EXCEPT !.qk = "idle", !.queued = Append(@, race.ch)]
    /\ KeyStep("queueKey", race.ch, "queued")

\* Fault: consoleGetKey does not test the ring for emptiness
GkTest_NoEmptyCheck ==
    /\ race.gk = "idle"
    /\ con' = [con EXCEPT !.keyloops = (@ + 1) % 3]
    /\ race' = [race EXCEPT !.gk = IF con'.keyloops # 1 THEN "idle" ELSE "load"]
    /\ KeyStep(IF con'.keyloops # 1 THEN "getKey" ELSE "gkTest", 0, NoRet)

\* consoleGetKey: if (keyIn == keyOut) return 0; and the throttle, which
\* works on keyloops, a counter of this thread alone
GkTest ==
    /\ race.gk = "idle"
    /\ con.keyIn # con.keyOut
    /\ con' = [con EXCEPT !.keyloops = (@ + 1) % 3]
    /\ race' = [race EXCEPT !.gk = IF con'.keyloops # 1 THEN "idle" ELSE "load"]
    /\ KeyStep(IF con'.keyloops # 1 THEN "getKey" ELSE "gkTest", 0, NoRet)

\* consoleGetKey: key = keyRing[keyOut]
GkLoad ==
    /\ race.gk = "load"
    /\ race' = [race EXCEPT !.gk = "advance", !.key = con.keyRing[con.keyOut]]
    /\ KeyStep("gkLoad", con.keyRing[con.keyOut], NoRet)
    /\ UNCHANGED con

\* consoleGetKey: keyOut = nextout; return key
GkAdvance ==
    /\ race.gk = "advance"
    /\ con' = [con EXCEPT !.keyOut = IF con.keyOut + 1 = KeyBufSize THEN 0
                                     ELSE con.keyOut + 1]
    /\ race' = [race EXCEPT !.gk = "idle",
                            !.got = IF race.key # 0 THEN Append(@, race.key) ELSE @]
    /\ KeyStep("getKey", race.key, NoRet)

(***************************************************************************)
(* Initial states: the slot as the Init function of the device leaves it.  *)
(***************************************************************************)
\* no paper removal and no io callback under way
NoRace ==
    [rp |-> "idle", isuffix |-> 0, fails |-> 0, reopenOK |-> TRUE, fcbClosed |-> FALSE,
     io |-> "idle", local |-> NULL, localClosed |-> FALSE,
     staleWrite |-> FALSE, renameWrite |-> FALSE, crashed |-> FALSE,
     qk |-> "idle", nextin |-> 0, ch |-> 0, gk |-> "idle", key |-> 0,
     queued |-> <<>>, got |-> <<>>]

InitChannel == [data |-> 0, full |-> FALSE, status |-> 0]

InitFs == [active |-> <<>>]

InitLast == [op |-> "init", code |-> 0, ret |-> NoRet, reply |-> FALSE,
             word |-> NoWord, host |-> NoHost]

InitCon(autoDate, autoDateString, autoYearString) ==
    [currentFont |-> FontDot, currentOffset |-> OffLeftScreen, emptyDrop |-> FALSE,
     keyRing |-> [i \in 0 .. (KeyBufSize - 1) |-> 0], keyIn |-> 0, keyOut |-> 0,
     keyloops |-> 0, autoDate |-> autoDate, autoDateString |-> autoDateString,
     autoYearString |-> autoYearString, autoPos |-> 0, ppKeyIn |-> NUL]

NoCon == InitCon(FALSE, <<>>, <<"2", "1">>)

consoleInit == [deviceType |-> DtConsole, fcode |-> 0, fcb |-> NULL, context |-> <<>>]

lp1612Init(useANSI) ==
    [deviceType |-> DtLp1612, fcode |-> 0, fcb |-> OPEN,
     context |-> [extuseANSI |-> useANSI]]

lp3000Init(flags, useANSI) ==
    [deviceType |-> DtLp5xx, fcode |-> 0, fcb |-> OPEN,
     context |-> [flags |-> flags, printed |-> FALSE, keepInt |-> FALSE,
                  extspaceopt |-> FcPrintSingle, extlpi |-> 6,
                  extlpp |-> U8(LpInchesPerPage * 6), extcurline |-> 1,
                  extuseANSI |-> useANSI, extsuppress |-> FALSE,
                  extpostprint |-> TRUE]]

\* lp501Init / lp512Init: the printer and controller type bits
Lp3000Models == {{t, c} : t \in {Lp3000Type501, Lp3000Type512},
                          c \in {Lp3000Type3555, Lp3000Type3152}}

InitWith(dp, c, e) ==
    /\ activeDevice = dp
    /\ activeChannel = InitChannel
    /\ fs = InitFs
    /\ con = c
    /\ irq = FALSE
    /\ last = InitLast
    /\ txn = "idle"
    /\ rel = "none"
    /\ trace = <<>>
    /\ env = e
    /\ race = NoRace

(***************************************************************************)
(* Environments: the function codes and data words a PP program issues,    *)
(* and what the host does, in one exploration.                             *)
(***************************************************************************)
Clock == <<"2", "6", "1", "1", "0", "2", "0", "8", "3", "0", "5", "9">>

Env(codes, words) ==
    [codes |-> codes, words |-> words, hostKeys |-> {NUL}, times |-> {Clock},
     fails |-> {0}, reopen |-> {TRUE}, keys |-> {}, maxKeys |-> KeyBufSize,
     maxFile |-> MaxFile, maxLine |-> MaxPageLine, tracing |-> FALSE, maxTrace |-> 0]

\* codes of the selected controller for a controller-independent request
SelectPreprint(flags) ==
    IF Lp3000Type3555 \in flags THEN Fc3555SelectPreprint ELSE Fc3152SelectPreprint
ClearFormat(flags) ==
    IF Lp3000Type3555 \in flags THEN Fc3555ClearFormat ELSE Fc3152ClearFormat
SelIntReady(flags) ==
    IF Lp3000Type3555 \in flags THEN Fc3555SelIntReady ELSE Fc3152SelIntReady
RelIntReady(flags) ==
    IF Lp3000Type3555 \in flags THEN Fc3555RelIntReady ELSE Fc3152RelIntReady
SelIntEnd(flags) ==
    IF Lp3000Type3555 \in flags THEN Fc3555SelIntEnd ELSE Fc3152SelIntEnd
RelIntEnd(flags) ==
    IF Lp3000Type3555 \in flags THEN Fc3555RelIntEnd ELSE Fc3152RelIntEnd

WordAB == 64 * Oct(30) + Oct(31)
WordCD == 64 * Oct(32) + Oct(33)
WordH == Oct(30)
WordI == Oct(31)

EnvConsole ==
    [Env({Fc6612Sel32CharLeft, Fc6612Sel512DotsRight, Fc6612SelKeyIn, 0},
         {64 * 1 + 2})
     EXCEPT !.hostKeys = {NUL, "A"}]

Env1612 ==
    [Env({FcPrintSelect, FcPrintSingleSpace, FcPrintSuppressLF, FcPrintStatusReq, 0},
         {WordH})
     EXCEPT !.reopen = BOOLEAN]

Env3000 ==
    [Env({FcPrintRelease, Fc6681MasterClear, Fc6681Output, Fc6681DevStatusReq},
         {WordAB})
     EXCEPT !.reopen = BOOLEAN]

(***************************************************************************)
(* Spec: one device on its channel (a console, a 1612 printer, or a 501 or *)
(* 512 printer on a 3555 or 3152 controller), driven by any sequence of    *)
(* callbacks and operator paper removals.                                  *)
(***************************************************************************)
Init ==
    \/ InitWith(consoleInit, NoCon, EnvConsole)
    \/ \E useANSI \in BOOLEAN : InitWith(lp1612Init(useANSI), NoCon, Env1612)
    \/ \E flags \in Lp3000Models, useANSI \in BOOLEAN :
           InitWith(lp3000Init(flags, useANSI), NoCon, Env3000)

Next ==
    \/ PpFunc
    \/ PpOutput
    \/ PpInput
    \/ Io
    \/ Activate
    \/ Disconnect
    \/ RemovePaper

Spec == Init /\ [][Next]_vars

(***************************************************************************)
(* SpecInt: a 501 printer on either controller, driven with the interrupt  *)
(* select and release codes.                                               *)
(***************************************************************************)
EnvInt(flags) ==
    Env({FcPrintRelease, Fc6681Output, Fc6681DevStatusReq, SelIntReady(flags),
         RelIntReady(flags), SelIntEnd(flags), RelIntEnd(flags)},
        {WordAB})

InitInt ==
    \E flags \in {m \in Lp3000Models : Lp3000Type501 \in m} :
        InitWith(lp3000Init(flags, FALSE), NoCon, EnvInt(flags))

SpecInt == InitInt /\ [][Next]_vars

(***************************************************************************)
(* SpecKeys: the keyboard ring under any interleaving of consoleQueueKey   *)
(* (window thread) and consoleGetKey.                                      *)
(***************************************************************************)
EnvKeys == [Env({}, {}) EXCEPT !.keys = {Oct(01)}]

InitKeys == InitWith(consoleInit, NoCon, EnvKeys)

NextKeys ==
    \/ QueueKey
    \/ GetKey

SpecKeys == InitKeys /\ [][NextKeys]_vars

(***************************************************************************)
(* SpecLines: the page position of a 501 printer on a 3555 controller over *)
(* a long run of spacing codes and print lines; the operator removes the   *)
(* paper at any time.                                                      *)
(***************************************************************************)
EnvLines ==
    [Env({FcPrintSingle, FcPrintEject, Fc6681Output}, {})
     EXCEPT !.maxLine = U8Max]

InitLines ==
    InitWith(lp3000Init({Lp3000Type501, Lp3000Type3555}, FALSE), NoCon, EnvLines)

NextLines ==
    \/ PpFunc
    \/ Disconnect
    \/ RemovePaper

SpecLines == InitLines /\ [][NextLines]_vars

(***************************************************************************)
(* SpecScenario: the first callbacks of a 1612 printer in ASCII mode,      *)
(* recorded in trace.                                                      *)
(***************************************************************************)
EnvScenario ==
    [Env({FcPrintSelect, FcPrintSingleSpace}, {WordH, WordI, 64 * WordH + WordI})
     EXCEPT !.maxFile = MaxFileScenario, !.tracing = TRUE, !.maxTrace = MaxTrace]

InitScenario == InitWith(lp1612Init(FALSE), NoCon, EnvScenario)

NextScenario ==
    \/ PpFunc
    \/ PpOutput
    \/ Io
    \/ Disconnect

SpecScenario == InitScenario /\ [][NextScenario]_vars

(***************************************************************************)
(* SpecOverprint: the first callbacks of a 501 printer on a 3555           *)
(* controller in ANSI mode, driven with NoSpace and Output, recorded in    *)
(* trace.                                                                  *)
(***************************************************************************)
Lp501On3555 == {Lp3000Type501, Lp3000Type3555}

EnvOverprint ==
    [Env({FcPrintNoSpace, Fc6681Output}, {WordAB, WordCD})
     EXCEPT !.maxFile = MaxFileOverprint, !.tracing = TRUE,
            !.maxTrace = MaxTraceOverprint]

InitOverprint == InitWith(lp3000Init(Lp501On3555, TRUE), NoCon, EnvOverprint)

SpecOverprint == InitOverprint /\ [][NextScenario]_vars

(***************************************************************************)
(* SpecPreprint: the same printer driven with the format codes, Double and *)
(* Output, recorded in trace.                                              *)
(***************************************************************************)
EnvPreprint ==
    [Env({Fc3555ClearFormat, Fc3555SelectPreprint, FcPrintDouble, Fc6681Output},
         {WordCD})
     EXCEPT !.maxFile = MaxFilePreprint, !.tracing = TRUE,
            !.maxTrace = MaxTracePreprint]

InitPreprint == InitWith(lp3000Init(Lp501On3555, TRUE), NoCon, EnvPreprint)

SpecPreprint == InitPreprint /\ [][NextScenario]_vars

(***************************************************************************)
(* SpecCodes: every function code of the 12-bit code space that either     *)
(* controller names, and codes neither names, issued to each printer model *)
(* in ASCII and ANSI mode; the function calls are recorded in trace.       *)
(***************************************************************************)
UnknownCode == Oct(7777)

EnvCodes ==
    [Env(0 .. Oct(100) \cup {Fc6681DevStatusReq, Fc6681Output, Fc6681Output + 1,
                              Fc6681MasterClear, UnknownCode}, {})
     EXCEPT !.tracing = TRUE, !.maxTrace = MaxTraceCodes]

InitCodes ==
    \E flags \in Lp3000Models, useANSI \in BOOLEAN :
        InitWith(lp3000Init(flags, useANSI), NoCon, EnvCodes)

SpecCodes == InitCodes /\ [][PpFunc]_vars

(***************************************************************************)
(* SpecAutoDate: the console with the automatic date entry armed on the    *)
(* prompt "ABCD"; the PP draws text and polls the keyboard while the       *)
(* window thread queues at most MaxTypeahead keys ahead of the poll.       *)
(***************************************************************************)
\* a data word holding two characters in display code
CdcWord(c1, c2) == 64 * asciiToCdc(c1) + asciiToCdc(c2)

EnvAutoDate ==
    [Env({Fc6612Sel32CharLeft, Fc6612SelKeyIn}, {CdcWord("A", "B"), CdcWord("C", "D")})
     EXCEPT !.keys = {Oct(01)}, !.maxKeys = MaxTypeahead]

InitAutoDate ==
    InitWith(consoleInit, InitCon(TRUE, <<"A", "B", "C", "D">>, <<"7", "0">>),
             EnvAutoDate)

NextAutoDate ==
    \/ PpFunc
    \/ PpOutput
    \/ PpInput
    \/ Io
    \/ Disconnect
    \/ QueueKey

SpecAutoDate == InitAutoDate /\ [][NextAutoDate]_vars

(***************************************************************************)
(* SpecKeyIn: keyboard input of the console.  The window thread queues     *)
(* keys in the ring while the PP polls the keyboard; the host keyboard     *)
(* delivers no key, the key "A", or the key "#", which has no console      *)
(* code.                                                                   *)
(***************************************************************************)
EnvKeyIn ==
    [Env({Fc6612SelKeyIn}, {})
     EXCEPT !.hostKeys = {NUL, "A", "#"}, !.keys = {Oct(02)},
            !.maxKeys = MaxKeyInTypeahead]

InitKeyIn == InitWith(consoleInit, NoCon, EnvKeyIn)

NextKeyIn ==
    \/ PpFunc
    \/ PpInput
    \/ Io
    \/ QueueKey

SpecKeyIn == InitKeyIn /\ [][NextKeyIn]_vars

(***************************************************************************)
(* SpecMatch: the PP writes the words "AB" and "CD" to the console in      *)
(* Medium font in any order while the pattern "ABCD" is awaited; nothing   *)
(* is typed.  The callbacks are recorded in trace.                         *)
(***************************************************************************)
EnvMatch ==
    [Env({Fc6612Sel32CharLeft}, {CdcWord("A", "B"), CdcWord("C", "D")})
     EXCEPT !.tracing = TRUE, !.maxTrace = MaxTraceMatch]

InitMatch ==
    InitWith(consoleInit, InitCon(TRUE, <<"A", "B", "C", "D">>, <<"7", "0">>),
             EnvMatch)

SpecMatch == InitMatch /\ [][NextScenario]_vars

(***************************************************************************)
(* SpecRing: the window thread queues keys while the emulator thread polls *)
(* the ring, statement by statement, long enough for the ring to fill and  *)
(* for both indices to wrap.                                               *)
(***************************************************************************)
InitRing == InitWith(consoleInit, NoCon, Env({}, {}))

NextRing ==
    \/ QkReadIn
    \/ QkTest
    \/ QkStore
    \/ QkPublish
    \/ GkTest
    \/ GkLoad
    \/ GkAdvance

SpecRing == InitRing /\ [][NextRing]_vars

(***************************************************************************)
(* SpecSelects: a 501 printer on either controller driven with the two     *)
(* interrupt selects and Output; the callbacks are recorded in trace.      *)
(***************************************************************************)
EnvSelects(flags) ==
    [Env({SelIntReady(flags), SelIntEnd(flags), Fc6681Output}, {WordAB})
     EXCEPT !.tracing = TRUE, !.maxTrace = MaxTraceSelects]

InitSelects ==
    \E flags \in {m \in Lp3000Models : Lp3000Type501 \in m} :
        InitWith(lp3000Init(flags, FALSE), NoCon, EnvSelects(flags))

SpecSelects == InitSelects /\ [][NextScenario]_vars

(***************************************************************************)
(* SpecPaper: a 1612 or a 501 printer prints while the operator removes    *)
(* the paper; the host lets any number of the first rename() calls fail,   *)
(* up to all of them, and the reopen succeed or fail.                      *)
(***************************************************************************)
RenameFailures == {0, 1, RenameAttempts - 1, RenameAttempts, RenameAttempts + 1}

EnvPaper(codes, words) ==
    [Env(codes, words) EXCEPT !.fails = RenameFailures, !.reopen = BOOLEAN]

InitPaper ==
    \/ \E useANSI \in BOOLEAN :
           InitWith(lp1612Init(useANSI), NoCon,
                    EnvPaper({FcPrintSelect, FcPrintSingleSpace}, {WordH}))
    \/ \E useANSI \in BOOLEAN :
           InitWith(lp3000Init(Lp501On3555, useANSI), NoCon,
                    EnvPaper({FcPrintSingle, Fc6681Output}, {WordAB}))

NextPaper ==
    \/ PpFunc
    \/ PpOutput
    \/ Io
    \/ Disconnect
    \/ RemovePaper

SpecPaper == InitPaper /\ [][NextPaper]_vars

(***************************************************************************)
(* SpecRace: a 501 printer prints in ASCII mode on the emulator thread     *)
(* while the operator thread removes the paper.                            *)
(***************************************************************************)
EnvRace ==
    [Env({FcPrintSingle, Fc6681Output}, {WordAB})
     EXCEPT !.fails = {0, 1}, !.reopen = BOOLEAN]

InitRace == InitWith(lp3000Init(Lp501On3555, FALSE), NoCon, EnvRace)

NextRace ==
    \/ RaceFunc
    \/ RaceOutput
    \/ RaceDisconnect
    \/ IoCheck
    \/ IoLoad
    \/ IoWrite
    \/ RpBegin
    \/ RpClose
    \/ RpNull
    \/ RpRename
    \/ RpReopen

SpecRace == InitRace /\ [][NextRace]_vars

(***************************************************************************)
(* SpecSpace: a 501 printer on a 3555 controller, in ASCII or ANSI mode,   *)
(* driven with the spacing codes, SelectPreprint, ClearFormat, Output and  *)
(* DevStatusReq.                                                           *)
(***************************************************************************)
EnvSpace ==
    [Env({FcPrintSingle, FcPrintDouble, FcPrintNoSpace, Fc3555SelectPreprint,
          Fc3555ClearFormat, Fc6681Output, Fc6681DevStatusReq}, {WordAB})
     EXCEPT !.maxFile = MaxFileSpace, !.maxLine = MaxLineSpace]

InitSpace ==
    \E useANSI \in BOOLEAN :
        InitWith(lp3000Init(Lp501On3555, useANSI), NoCon, EnvSpace)

SpecSpace == InitSpace /\ [][NextScenario]_vars

(***************************************************************************)
(* SpecFill: a 501 or 512 printer on a 3555 controller driven with         *)
(* FillMemory and Output, recorded in trace.                               *)
(***************************************************************************)
EnvFill ==
    [Env({Fc3555FillMemory, Fc6681Output}, {WordAB})
     EXCEPT !.tracing = TRUE, !.maxTrace = MaxTraceFill]

InitFill ==
    \E flags \in {m \in Lp3000Models : Lp3000Type3555 \in m} :
        InitWith(lp3000Init(flags, FALSE), NoCon, EnvFill)

SpecFill == InitFill /\ [][NextScenario]_vars

(***************************************************************************)
(* Spec1612Codes: every function code the 1612 names, the codes next to    *)
(* them and codes it does not name, issued to the printer in ASCII and     *)
(* ANSI mode; the function calls are recorded in trace.                    *)
(***************************************************************************)
Env1612Codes ==
    [Env((FcPrintSelect - 1) .. (FcPrintFormat6 + 1) \cup {0, UnknownCode}, {})
     EXCEPT !.maxFile = MaxFileScenario, !.tracing = TRUE, !.maxTrace = MaxTraceCodes]

Init1612Codes ==
    \E useANSI \in BOOLEAN : InitWith(lp1612Init(useANSI), NoCon, Env1612Codes)

Spec1612Codes == Init1612Codes /\ [][PpFunc]_vars

(***************************************************************************)
(* Spec1612Status: the first callbacks of a 1612 printer driven with       *)
(* StatusReq and Select, recorded in trace; the PP takes the status word.  *)
(***************************************************************************)
Env1612Status ==
    [Env({FcPrintStatusReq, FcPrintSelect}, {WordH})
     EXCEPT !.tracing = TRUE, !.maxTrace = MaxTraceStatus]

Init1612Status ==
    \E useANSI \in BOOLEAN : InitWith(lp1612Init(useANSI), NoCon, Env1612Status)

Next1612Status ==
    \/ PpFunc
    \/ PpOutput
    \/ PpInput
    \/ Io
    \/ Disconnect

Spec1612Status == Init1612Status /\ [][Next1612Status]_vars

(***************************************************************************)
(* Properties.                                                             *)
(***************************************************************************)
HasBit(w, mask) == (w \div mask) % 2 = 1

IsPrinter == activeDevice.deviceType \in {DtLp1612, DtLp5xx}

Is3000 == activeDevice.deviceType = DtLp5xx

\* C1, as the spec states it: once func has returned Accepted, fcode stays
\* non-zero through every following io call until disconnect.
C1_FcodeLatchedUntilDisconnect == txn # "idle" => activeDevice.fcode # 0

\* C1, amended: once func has returned Accepted, fcode stays non-zero through
\* every following io call until disconnect, except that the io call which
\* delivers the reply (status request, key-in) clears fcode itself.
C1_FcodeLatchedUntilReplyOrDisconnect == txn = "open" => activeDevice.fcode # 0

\* an io call consumed a data word and the code is still latched
C1_Witness ==
    /\ txn = "open"
    /\ last.op = "io"
    /\ last.word # NoWord
    /\ activeDevice.fcode # 0

\* C2, as the spec states it: when the func that starts a transaction latches
\* a code, fcode was 0 on entry (the previous disconnect or completing io
\* returned the slot to idle).
C2_LatchOnlyWhenIdle ==
    [][(txn = "idle" /\ last'.op = "func" /\ last'.ret = FcAccepted)
           => activeDevice.fcode = 0]_vars

\* C2, amended: the slot is returned to idle (fcode = 0) by an io that delivers
\* a reply and by the 3000-series disconnect of an Output function on an open
\* file; every other disconnect leaves the code latched as it found it, and
\* the next func overwrites it.
C2_IdleAfterReplyOrOutputDisconnect ==
    /\ (last.op = "io" /\ last.reply) => activeDevice.fcode = 0
    /\ last.op = "disconnect" =>
           activeDevice.fcode =
               IF Is3000 /\ activeDevice.fcb # NULL /\ last.code = Fc6681Output
               THEN 0 ELSE last.code

\* a 3000-series disconnect has ended an Output function
C2_Witness ==
    /\ Is3000
    /\ activeDevice.fcb # NULL
    /\ last.op = "disconnect"
    /\ last.code = Fc6681Output
    /\ activeDevice.fcode = 0

\* C3: for the 3000-series printer 1 <= curLine <= lpp in every state.
C3_CurLineWithinPage ==
    Is3000 => /\ 1 <= activeDevice.context.extcurline
              /\ activeDevice.context.extcurline <= activeDevice.context.extlpp

\* C4: the word an open printer places on the channel in answer to a status
\* request has the StPrintReady bit of that printer set.
C4_StatusReplyReady ==
    (IsPrinter /\ activeDevice.fcb # NULL /\ last.op = "io" /\ last.reply) =>
        HasBit(activeChannel.data,
               IF Is3000 THEN StPrintReady ELSE St1612PrintReady)

\* a 3000-series printer answers a status request after it has printed
C4_Witness ==
    /\ Is3000
    /\ activeDevice.fcb # NULL
    /\ last.op = "io"
    /\ last.reply
    /\ Len(fs.active) > 0
    /\ HasBit(activeChannel.data, StPrintReady)

\* C5: a latched interrupt bit is set in flags only if its enable bit is set,
\* and a status reply shows no interrupt bit whose enable bit is clear.
C5_LatchedOnlyIfEnabled ==
    Is3000 =>
        LET flags == activeDevice.context.flags
        IN  /\ Lp3000IntReady \in flags => Lp3000IntReadyEna \in flags
            /\ Lp3000IntEnd \in flags => Lp3000IntEndEna \in flags
            /\ (last.op = "io" /\ last.reply) =>
                   /\ HasBit(activeChannel.data, StPrintIntReady)
                          => Lp3000IntReadyEna \in flags
                   /\ HasBit(activeChannel.data, StPrintIntEnd)
                          => Lp3000IntEndEna \in flags

\* a status reply shows the latched and enabled IntEnd
C5_Witness ==
    /\ Is3000
    /\ last.op = "io"
    /\ last.reply
    /\ HasBit(activeChannel.data, StPrintIntEnd)
    /\ Lp3000IntEndEna \in activeDevice.context.flags

\* C6: keyIn and keyOut stay in 0 .. 49, the occupancy (keyIn - keyOut) mod 50
\* is at most 49, and a consoleQueueKey call on a full ring changes neither
\* keyIn, keyOut nor any ring slot.
C6_KeyRing ==
    /\ [](/\ con.keyIn \in 0 .. (KeyBufSize - 1)
          /\ con.keyOut \in 0 .. (KeyBufSize - 1)
          /\ (con.keyIn - con.keyOut) % KeyBufSize <= KeyBufSize - 1)
    /\ [][(last'.op = "queueKey" /\ (con.keyIn + 1) % KeyBufSize = con.keyOut)
              => /\ con'.keyIn = con.keyIn
                 /\ con'.keyOut = con.keyOut
                 /\ con'.keyRing = con.keyRing]_vars

\* a key was dropped on a full ring whose indices have wrapped
C6_Witness ==
    /\ last.op = "queueKey"
    /\ last.ret = "dropped"
    /\ (con.keyIn + 1) % KeyBufSize = con.keyOut
    /\ con.keyIn < con.keyOut

\* C7: in ANSI mode no data character stands at the start of a line and no
\* carriage-control character is written in mid-line.
AnsiControls == {" ", "0", "1", "+"}

LineStart(f, i) == i = 1 \/ f[i - 1] = "\n"

C7_AnsiCarriageControl ==
    (IsPrinter /\ activeDevice.context.extuseANSI) =>
        \A i \in 1 .. Len(fs.active) :
            IF LineStart(fs.active, i)
            THEN fs.active[i] \in AnsiControls \cup {"\n"}
            ELSE fs.active[i] \notin AnsiControls

\* C8: removePaper on a capture file at position 0 attempts no rename, neither
\* closes nor reopens the file, and leaves the slot as it was.
C8_RemovePaperEmptyNoOp ==
    [][(last'.op = "removePaper" /\ Len(fs.active) = 0)
           => /\ last'.host = NoHost
              /\ activeDevice' = activeDevice
              /\ activeChannel' = activeChannel
              /\ fs' = fs]_vars

\* removePaper has returned from an open file without touching it
C8_Witness ==
    /\ last.op = "removePaper"
    /\ activeDevice.fcb # NULL
    /\ last.host = NoHost
    /\ Len(fs.active) = 0

\* C9: a Release function call that follows another with no Output data word
\* printed between them writes nothing, renames nothing and does not reopen
\* the capture file.
C9_SecondReleaseNoOp ==
    [][(Is3000 /\ rel \in {"released", "again"}
            /\ last'.op = "func" /\ last'.code = FcPrintRelease)
           => /\ fs' = fs
              /\ last'.host = NoHost
              /\ activeDevice'.fcb = activeDevice.fcb]_vars

\* a repeated Release has left a non-empty capture file in place
C9_Witness ==
    /\ Is3000
    /\ rel = "again"
    /\ last.op = "func"
    /\ last.code = FcPrintRelease
    /\ activeDevice.fcb # NULL
    /\ Len(fs.active) > 0

\* The callbacks of a transaction as trace records them: the function codes,
\* the data words the io calls consumed, the disconnect.
Calls(t) ==
    [i \in 1 .. Len(t) |->
        CASE t[i].op = "func" -> <<"func", t[i].code>>
          [] t[i].op = "io" -> <<"io", t[i].word>>
          [] OTHER -> <<t[i].op>>]

\* "HI" sent one character to the word
TransactionHI ==
    <<<<"func", FcPrintSelect>>, <<"io", WordH>>, <<"io", WordI>>,
      <<"func", FcPrintSingleSpace>>, <<"disconnect">>>>

\* "HI" sent as one combined word
TransactionHICombined ==
    <<<<"func", FcPrintSelect>>, <<"io", 64 * WordH + WordI>>,
      <<"func", FcPrintSingleSpace>>, <<"disconnect">>>>

\* C10, as the spec states it: FcPrintSelect, the data for "HI",
\* FcPrintSingleSpace, disconnect leave the capture file holding "HI\n".
C10_FileIsHILine ==
    Calls(trace) \in {TransactionHI, TransactionHICombined}
        => fs.active = <<"H", "I", "\n">>

\* C10, amended: with "HI" sent one character to the word the file holds
\* "HI\n\n" (one line terminator written by FcPrintSingleSpace, one more by
\* the disconnect); one combined word prints only its low six bits, "I\n\n".
C10_FileIsHITwoLines ==
    /\ Calls(trace) = TransactionHI => fs.active = <<"H", "I", "\n", "\n">>
    /\ Calls(trace) = TransactionHICombined => fs.active = <<"I", "\n", "\n">>

C10_Witness ==
    /\ Calls(trace) = TransactionHI
    /\ fs.active = <<"H", "I", "\n", "\n">>

\* s ends with the text t
EndsWith(s, t) ==
    /\ Len(s) >= Len(t)
    /\ SubSeq(s, Len(s) - Len(t) + 1, Len(s)) = t

\* a single-space postprint Output transaction printing "AB", then NoSpace,
\* Output of "CD", disconnect
TransactionOverprint ==
    <<<<"func", Fc6681Output>>, <<"io", WordAB>>, <<"disconnect">>,
      <<"func", FcPrintNoSpace>>, <<"func", Fc6681Output>>, <<"io", WordCD>>,
      <<"disconnect">>>>

\* C11, as the spec states it: after that sequence (LINE1 = "AB", LINE2 = "CD")
\* the overprint control '+' is the first column of the line carrying LINE2:
\* the file ends with LINE1 "\n+" LINE2.
C11_OverprintBeforeLine2 ==
    Calls(trace) = TransactionOverprint
        => EndsWith(fs.active, <<"A", "B", "\n", "+", "C", "D">>)

\* C11, amended: the file ends with LINE1 "\n " LINE2 "\n+": LINE2 stands on a
\* single-spaced line of its own and the '+' written by its disconnect is the
\* first column of the line that follows LINE2.
C11_OverprintAfterLine2 ==
    Calls(trace) = TransactionOverprint
        => fs.active = <<"A", "B", "\n", " ", "C", "D", "\n", "+">>

C11_Witness ==
    /\ Calls(trace) = TransactionOverprint
    /\ EndsWith(fs.active, <<"C", "D", "\n", "+">>)
    /\ ~activeDevice.context.extsuppress

\* ClearFormat, SelectPreprint, PrintDouble, Output, data "CD", disconnect
TransactionPreprintDouble ==
    <<<<"func", Fc3555ClearFormat>>, <<"func", Fc3555SelectPreprint>>,
      <<"func", FcPrintDouble>>, <<"func", Fc6681Output>>, <<"io", WordCD>>,
      <<"disconnect">>>>

\* C12: in ANSI mode that sequence on an empty capture file leaves the file
\* holding exactly "\n0CD".
C12_PreprintDoubleFile ==
    Calls(trace) = TransactionPreprintDouble
        => fs.active = <<"\n", "0", "C", "D">>

\* C13: with the capture file open, lp3000Func returns Accepted and latches
\* a code only for Output and DevStatusReq; every other code, known to the
\* selected controller or not, returns Processed and leaves fcode unchanged.
C13_AcceptedOnlyOutputAndStatus ==
    [][(Is3000 /\ activeDevice.fcb # NULL /\ last'.op = "func")
           => IF last'.code \in {Fc6681Output, Fc6681DevStatusReq}
              THEN /\ last'.ret = FcAccepted
                   /\ activeDevice'.fcode \in {last'.code, last'.code + 1}
              ELSE /\ last'.ret = FcProcessed
                   /\ activeDevice'.fcode = activeDevice.fcode]_vars

\* a code neither controller knows was processed while Output stayed latched
C13_Witness ==
    /\ Is3000
    /\ last.op = "func"
    /\ last.code = UnknownCode
    /\ last.ret = FcProcessed
    /\ activeDevice.fcode = Fc6681Output

\* C14, as the spec states it: the counter of consoleGetKey advances on every
\* call, whether or not the ring holds a key; a key is returned only when the
\* counter modulo 3 is 1, every other call returns 0 and leaves keyOut alone.
C14_CounterAdvancesEveryCall ==
    [][last'.op = "getKey"
           => /\ con'.keyloops = (con.keyloops + 1) % 3
              /\ con'.keyloops # 1 => (last'.word = 0 /\ con'.keyOut = con.keyOut)]_vars

\* C14, amended: a call on an empty ring returns 0 and leaves the counter and
\* keyOut alone; a call on a non-empty ring advances the counter, and returns
\* the key at keyOut (advancing keyOut) when the counter modulo 3 is 1, else
\* returns 0 and leaves keyOut alone.
C14_CounterAdvancesOnNonEmptyRing ==
    [][last'.op = "getKey"
           => IF con.keyIn = con.keyOut
              THEN last'.word = 0 /\ con' = con
              ELSE /\ con'.keyloops = (con.keyloops + 1) % 3
                   /\ IF con'.keyloops = 1
                      THEN /\ last'.word = con.keyRing[con.keyOut]
                           /\ con'.keyOut = (con.keyOut + 1) % KeyBufSize
                      ELSE /\ last'.word = 0
                           /\ con'.keyOut = con.keyOut]_vars

\* a throttled call: the ring holds a key and the call returned 0
C14_Witness ==
    /\ last.op = "getKey"
    /\ last.word = 0
    /\ con.keyIn # con.keyOut
    /\ con.keyloops = 2

\* C15: the key ring has one producer and one consumer: keyIn is written only
\* by the window thread (consoleQueueKey called from the window's input
\* handling), keyOut only by the consumer; no callback that the emulator
\* thread runs, the auto-date entry of consoleIo included, writes keyIn.
C15_KeyInOnlyByWindowThread ==
    [][/\ last'.op = "queueKey" => con'.keyOut = con.keyOut
       /\ last'.op \in {"func", "io", "activate", "disconnect"}
              => con'.keyIn = con.keyIn]_vars

\* C16: while the capture file handle of a printer (1612 or 3000-series) is
\* null, func, io and disconnect write nothing and change neither the context
\* nor fcode, and func returns Processed.
C16_NullHandleCallbacksDoNothing ==
    [][(/\ IsPrinter
        /\ activeDevice.fcb = NULL
        /\ last'.op \in {"func", "io", "disconnect"})
           => /\ fs' = fs
              /\ activeDevice' = activeDevice
              /\ last'.op = "func" => last'.ret = FcProcessed]_vars

\* C16 witness: a 3000-series printer whose reopen failed has been sent
\* Output, which an open printer accepts, and a 1612 printer whose reopen
\* failed has run io with a word waiting on the channel.
C16_Witness ==
    /\ IsPrinter
    /\ activeDevice.fcb = NULL
    /\ \/ Is3000 /\ last.op = "func" /\ last.code = Fc6681Output
          /\ last.ret = FcProcessed
       \/ ~Is3000 /\ last.op = "io" /\ activeChannel.full
          /\ activeDevice.fcode = FcPrintSelect

\* C17: the rename loop of a paper removal terminates: it makes at most 100
\* attempts (suffixes 00..99), stops at the first rename that succeeds, and
\* returns after the 100th attempt when every attempt fails.
C17_RenameLoopBounded ==
    (last.op = "removePaper" /\ last.host.closed)
        => /\ last.host.renames \in 1 .. RenameAttempts
           /\ last.host.renamed
                  => /\ last.host.fails < RenameAttempts
                     /\ last.host.renames = last.host.fails + 1
           /\ ~last.host.renamed
                  => /\ last.host.fails >= RenameAttempts
                     /\ last.host.renames = RenameAttempts

\* C17 witness: a paper removal in which every rename failed has returned.
C17_Witness ==
    /\ last.op = "removePaper"
    /\ last.host.closed
    /\ ~last.host.renamed
    /\ last.host.fails > RenameAttempts
    /\ last.host.renames = RenameAttempts

\* C18: paper removal is atomic with respect to emulator writes: in any
\* interleaving of removePaper with a printer callback on the same slot, no
\* callback writes through a file handle that removePaper has already closed,
\* no byte is written to the capture file while the rename loop is running,
\* and fcb[0] is null from the close until the reopen.
C18_RemovePaperAtomic ==
    /\ ~race.staleWrite
    /\ ~race.renameWrite
    /\ race.rp \in {"closed", "renaming", "reopen"} => activeDevice.fcb = NULL

\* C19: in postprint mode of a 3000-series printer, in ASCII and ANSI mode
\* alike, the Single function writes nothing to the file at func time; the
\* line advance is written only by the disconnect of the following Output.
C19_PostprintSingleWritesNothing ==
    [][(/\ Is3000
        /\ activeDevice.fcb # NULL
        /\ activeDevice.context.extpostprint
        /\ last'.op = "func"
        /\ last'.code = FcPrintSingle)
           => fs' = fs]_vars

\* the bytes a call has appended to the capture file
Appended(before, after) == SubSeq(after, Len(before) + 1, Len(after))

\* C20: in preprint mode of a 3000-series printer, Single at func time writes
\* "\n" (ASCII) or "\n " (ANSI) and advances the line counter by 1, Double
\* writes "\n\n" or "\n0" and advances it by 2; both record the spacing option
\* and return Processed.
C20_PreprintSpacesAtFuncTime ==
    [][(/\ Is3000
        /\ activeDevice.fcb # NULL
        /\ ~activeDevice.context.extpostprint
        /\ last'.op = "func"
        /\ last'.code \in {FcPrintSingle, FcPrintDouble})
           => LET ansi == activeDevice.context.extuseANSI
                  double == last'.code = FcPrintDouble
              IN  /\ Len(fs'.active) >= Len(fs.active)
                  /\ SubSeq(fs'.active, 1, Len(fs.active)) = fs.active
                  /\ Appended(fs.active, fs'.active) =
                         (CASE ~ansi /\ ~double -> <<"\n">>
                            [] ansi /\ ~double -> <<"\n", " ">>
                            [] ~ansi /\ double -> <<"\n", "\n">>
                            [] ansi /\ double -> <<"\n", "0">>)
                  /\ activeDevice'.context.extcurline =
                         activeDevice.context.extcurline + (IF double THEN 2 ELSE 1)
                  /\ activeDevice'.context.extspaceopt = last'.code
                  /\ last'.ret = FcProcessed]_vars

\* C20 witness: in preprint mode of an ANSI printer Double has just written
\* its carriage control and moved the line counter from 1 to 3.
C20_Witness ==
    /\ Is3000
    /\ activeDevice.context.extuseANSI
    /\ ~activeDevice.context.extpostprint
    /\ last.op = "func"
    /\ last.code = FcPrintDouble
    /\ last.ret = FcProcessed
    /\ fs.active = <<"\n", "0">>
    /\ activeDevice.context.extcurline = 3

\* the file after a call is the file before it followed by text
Wrote(text) == fs'.active = fs.active \o text

\* C21: NoSpace sets extsuppress and writes nothing; the disconnect of the
\* next Output transaction then writes "\r" (ASCII) or "\n+" (ANSI) instead of
\* the normal advance, leaves the line counter alone and clears extsuppress,
\* so that the suppression applies to exactly one Output transaction.
C21_NoSpaceSuppressesOneAdvance ==
    [][(Is3000 /\ activeDevice.fcb # NULL)
           => /\ (last'.op = "func" /\ last'.code = FcPrintNoSpace)
                     => /\ activeDevice'.context.extsuppress
                        /\ fs' = fs
                        /\ last'.ret = FcProcessed
              /\ (/\ last'.op = "disconnect"
                  /\ activeDevice.fcode = Fc6681Output
                  /\ activeDevice.context.extsuppress)
                     => /\ Wrote(IF activeDevice.context.extuseANSI
                                 THEN <<"\n", "+">> ELSE <<"\r">>)
                        /\ activeDevice'.context.extcurline =
                               activeDevice.context.extcurline
                        /\ ~activeDevice'.context.extsuppress]_vars

\* C21 witness: an ASCII printer has ended an Output transaction that followed
\* NoSpace: the file ends with the carriage return, the suppression is over.
C21_Witness ==
    /\ Is3000
    /\ ~activeDevice.context.extuseANSI
    /\ last.op = "disconnect"
    /\ last.code = Fc6681Output
    /\ ~activeDevice.context.extsuppress
    /\ EndsWith(fs.active, <<"\r">>)

C23_MasterClearResetsContext ==
    [][(/\ Is3000
        /\ activeDevice.fcb # NULL
        /\ last'.op = "func"
        /\ last'.code = Fc6681MasterClear)
           => LET lc == activeDevice'.context
              IN  /\ lc.extspaceopt = FcPrintSingle
                  /\ lc.extlpi = 6
                  /\ lc.extlpp = 66
                  /\ lc.extcurline = 1
                  /\ ~lc.extsuppress
                  /\ lc.extpostprint
                  /\ lc.flags \cap {Lp3555FillImageMem, Lp3000IntReady, Lp3000IntEnd,
                                     Lp3000IntReadyEna, Lp3000IntEndEna} = {}
                  /\ ~lc.printed
                  /\ ~lc.keepInt
                  /\ Wrote(IF lc.extuseANSI THEN <<"\n", "1">> ELSE <<"\f">>)
                  /\ last'.ret = FcProcessed]_vars

C25_FillImageDataDiscarded ==
    [][(/\ Is3000
        /\ activeDevice.fcb # NULL
        /\ Lp3000Type3555 \in activeDevice.context.flags)
           => LET lc == activeDevice.context
                  lc2 == activeDevice'.context
              IN  /\ (last'.op = "func" /\ last'.code = Fc6681Output)
                         => /\ activeDevice'.fcode =
                                   (IF Lp3555FillImageMem \in lc.flags
                                    THEN Fc6681Output + 1 ELSE Fc6681Output)
                            /\ Lp3555FillImageMem \notin lc2.flags
                            /\ last'.ret = FcAccepted
                  /\ (last'.op = "io" /\ activeDevice.fcode = Fc6681Output + 1)
                         => /\ ~activeChannel'.full
                            /\ fs' = fs
                            /\ lc2 = lc
                            /\ activeDevice'.fcode = Fc6681Output + 1
                  /\ (/\ last'.op = "io"
                      /\ activeDevice.fcode = Fc6681Output
                      /\ activeChannel.full)
                         => /\ fs' # fs
                            /\ lc2.printed]_vars

\* C25 witness: after FillMemory and Output the only io cycle so far has taken
\* the word the PP had put on the channel, and nothing has been printed.
C25_Witness ==
    /\ Calls(trace) = <<<<"func", Fc3555FillMemory>>, <<"func", Fc6681Output>>,
                        <<"io", NoWord>>>>
    /\ last.code = Fc6681Output + 1
    /\ activeChannel.data = WordAB
    /\ ~activeChannel.full
    /\ fs.active = <<>>
    /\ ~activeDevice.context.printed
    /\ ~activeDevice.context.keepInt
    /\ Lp3555FillImageMem \notin activeDevice.context.flags

\* the latched and the enable bit that a select-interrupt code names
SelIntBits(code) ==
    CASE code \in {Fc3555SelIntReady, Fc3152SelIntReady} ->
             [int |-> Lp3000IntReady, ena |-> Lp3000IntReadyEna]
      [] code \in {Fc3555SelIntEnd, Fc3152SelIntEnd} ->
             [int |-> Lp3000IntEnd, ena |-> Lp3000IntEndEna]

\* a select-interrupt code of the controller of the printer has just run
SelIntCall ==
    /\ Is3000
    /\ activeDevice.fcb # NULL
    /\ last'.op = "func"
    /\ last'.code = SelIntReady(activeDevice.context.flags)
           \/ last'.code = SelIntEnd(activeDevice.context.flags)

\* C26, as the spec states it: SelIntReady / SelIntEnd set the enable bit; if
\* keepInt is true the latched interrupt bit keeps the value it had before
\* the call and keepInt is cleared; if keepInt is false the latched bit is
\* cleared.
C26_SelIntKeepsLatchedBit ==
    [][SelIntCall
           => LET b == SelIntBits(last'.code)
                  lc == activeDevice.context
                  lc2 == activeDevice'.context
              IN  /\ b.ena \in lc2.flags
                  /\ IF lc.keepInt
                     THEN /\ b.int \in lc2.flags <=> b.int \in lc.flags
                          /\ ~lc2.keepInt
                     ELSE b.int \notin lc2.flags]_vars

\* C26, amended: SelIntReady / SelIntEnd set the enable bit; if keepInt is
\* true the latched interrupt bit is set, whatever its value before the call,
\* and keepInt is cleared; if keepInt is false the latched bit is cleared and
\* keepInt stays false; no other flag changes and the interrupt summary is
\* reported.
C26_SelIntSetsLatchedBit ==
    [][SelIntCall
           => LET b == SelIntBits(last'.code)
                  lc == activeDevice.context
                  lc2 == activeDevice'.context
              IN  /\ b.ena \in lc2.flags
                  /\ b.int \in lc2.flags <=> lc.keepInt
                  /\ ~lc2.keepInt
                  /\ lc2.flags \ {b.int, b.ena} = lc.flags \ {b.int, b.ena}
                  /\ irq' = (lc2.flags \cap {Lp3000IntReady, Lp3000IntEnd} # {})
                  /\ last'.ret = FcProcessed]_vars

\* C26 witness: a select-interrupt code issued after an io cycle has latched
\* an interrupt that the Output function had not latched, the other one is
\* neither enabled nor latched.
C26_Witness ==
    /\ Is3000
    /\ last.op = "func"
    /\ last.code = SelIntReady(activeDevice.context.flags)
    /\ activeDevice.fcode = Fc6681Output
    /\ activeDevice.context.printed
    /\ ~activeDevice.context.keepInt
    /\ activeDevice.context.flags
           \cap {Lp3000IntReady, Lp3000IntReadyEna, Lp3000IntEnd, Lp3000IntEndEna}
           = {Lp3000IntReady, Lp3000IntReadyEna}
    /\ irq

C28_Lp1612FunctionTable ==
    [][(/\ activeDevice.deviceType = DtLp1612
        /\ activeDevice.fcb # NULL
        /\ last'.op = "func")
           => LET code == last'.code
                  ansi == activeDevice.context.extuseANSI
                  listed == code \in FcPrintSelect .. FcPrintFormat6
              IN  /\ Wrote(CASE code \in {FcPrintSingleSpace, FcPrintMoveChannel7,
                                          FcPrintPrint} ->
                                    IF ansi THEN <<"\n", " ">> ELSE <<"\n">>
                             [] code = FcPrintDoubleSpace ->
                                    IF ansi THEN <<"\n", "0">> ELSE <<"\n", "\n">>
                             [] code = FcPrintMoveTOF ->
                                    IF ansi THEN <<"\n", "1">> ELSE <<"\f">>
                             [] code = FcPrintSuppressLF ->
                                    IF ansi THEN <<"\n", "+">> ELSE <<"\r">>
                             [] OTHER -> <<>>)
                  /\ last'.ret = (CASE code = FcPrintSuppressLF -> FcProcessed
                                    [] listed /\ code # FcPrintSuppressLF -> FcAccepted
                                    [] OTHER -> FcDeclined)
                  /\ activeDevice'.fcode =
                         (IF last'.ret = FcAccepted THEN code ELSE activeDevice.fcode)
                  /\ activeChannel'.status =
                         (IF code = FcPrintStatusReq THEN St1612PrintReady
                          ELSE activeChannel.status)
                  /\ activeDevice'.context = activeDevice.context]_vars

\* C28 witness: an ANSI printer has accepted and latched MoveTOF after
\* SuppressLF, which it processed without latching it.
C28_Witness ==
    /\ activeDevice.deviceType = DtLp1612
    /\ activeDevice.context.extuseANSI
    /\ Calls(trace) = <<<<"func", FcPrintSuppressLF>>, <<"func", FcPrintMoveTOF>>>>
    /\ trace[1].ret = FcProcessed
    /\ last.ret = FcAccepted
    /\ activeDevice.fcode = FcPrintMoveTOF
    /\ fs.active = <<"\n", "+", "\n", "1">>

\* C29: after the 1612 accepts StatusReq, the next io cycle places
\* StPrintReady (04000) in channel.data, sets channel.full and clears fcode to
\* 0, on every status transaction, the first one after initialisation
\* included.
C29_Lp1612StatusReply ==
    [][(/\ activeDevice.deviceType = DtLp1612
        /\ activeDevice.fcb # NULL
        /\ last'.op = "io"
        /\ activeDevice.fcode = FcPrintStatusReq)
           => /\ activeChannel'.data = St1612PrintReady
              /\ activeChannel'.full
              /\ activeDevice'.fcode = 0]_vars

\* C29 witness: the second status transaction of a printer has been answered.
C29_Witness ==
    /\ activeDevice.deviceType = DtLp1612
    /\ Calls(trace) = <<<<"func", FcPrintStatusReq>>, <<"io", NoWord>>,
                        <<"func", FcPrintStatusReq>>, <<"io", NoWord>>>>
    /\ trace[2].reply
    /\ last.reply
    /\ activeChannel.data = St1612PrintReady
    /\ activeChannel.full
    /\ activeDevice.fcode = 0

\* the io cycle just run has answered the first status request since
\* initialisation
FirstStatusReply ==
    /\ activeDevice.deviceType = DtLp1612
    /\ last.op = "io"
    /\ last.reply
    /\ Len(trace) >= 1
    /\ \A i \in 1 .. (Len(trace) - 1) : ~trace[i].reply

\* C30, as the spec states it: on the very first 1612 StatusReq transaction
\* after initialisation the data word returned by io equals the channel's
\* initial status (zero), because channel.status is only set by the status
\* path of the preceding call.
C30_FirstStatusIsZero == FirstStatusReply => activeChannel.data = 0

\* C30, amended: on the very first 1612 StatusReq transaction after
\* initialisation the data word returned by io is StPrintReady (04000):
\* lp1612Func stored it in channel.status when it accepted StatusReq, and the
\* io cycle that copies it to channel.data resets channel.status to zero.
C30_FirstStatusIsReady ==
    FirstStatusReply
        => /\ activeChannel.data = St1612PrintReady
           /\ activeChannel.full
           /\ activeChannel.status = 0

\* C30 witness: StatusReq is the first function after initialisation and the
\* first io cycle has answered it.
C30_Witness ==
    /\ FirstStatusReply
    /\ Calls(trace) = <<<<"func", FcPrintStatusReq>>, <<"io", NoWord>>>>
    /\ activeChannel.data = St1612PrintReady

\* the VFU select codes of the controller the printer is attached to:
\* PostVFU1-12 and PreVFU1-12 of the 3555, PostVFU1-6 and PreVFU1-6 of the 3152
VfuCodes(flags) ==
    IF Lp3000Type3555 \in flags
    THEN Oct(31) .. Oct(44) \cup Oct(51) .. Oct(64)
    ELSE Oct(11) .. Oct(16) \cup Oct(21) .. Oct(26)

\* C31: every VFU select code of the selected controller is a no-op: the
\* function returns Processed and leaves the capture file, every context
\* field, fcode, the channel and the interrupt summary unchanged.
C31_VfuCodesAreNoOps ==
    [][(/\ Is3000
        /\ last'.op = "func"
        /\ last'.code \in VfuCodes(activeDevice.context.flags))
           => /\ last'.ret = FcProcessed
              /\ fs' = fs
              /\ activeDevice' = activeDevice
              /\ activeChannel' = activeChannel
              /\ irq' = irq]_vars

\* C31 witness: a 3555 in pre-print mode has processed PreVFU12 and is still
\* in pre-print mode with nothing written.
C31_Witness ==
    /\ Lp3000Type3555 \in activeDevice.context.flags
    /\ Calls(trace) = <<<<"func", Fc3555SelectPreprint>>, <<"func", Oct(64)>>>>
    /\ last.ret = FcProcessed
    /\ ~activeDevice.context.extpostprint
    /\ fs.active = <<>>

\* the step is a key-in io cycle of the console in which windowGetChar left
\* hostKey in ppKeyIn
KeyInCycle(hostKey) ==
    /\ activeDevice.deviceType = DtConsole
    /\ activeDevice.fcode = Fc6612SelKeyIn
    /\ last'.op = "io"
    /\ activeChannel' = consoleIo(M, hostKey, Clock).ch
    /\ con' = consoleIo(M, hostKey, Clock).con

\* C32, as the spec states it: with SelKeyIn latched an io cycle reads the
\* host key ppKeyIn and takes the word from consoleGetKey only if it is zero,
\* so a pending host key never dequeues a key from the ring in the same cycle.
C32_HostKeyNeverDequeues ==
    [][\A hostKey \in env.hostKeys \ {NUL} :
           KeyInCycle(hostKey) => con'.keyOut = con.keyOut]_vars

\* C32, amended: the io cycle converts ppKeyIn through asciiToConsole; if the
\* converted word is zero (no host key, or a host key without a console
\* code) the word comes from consoleGetKey instead.  The word is placed in
\* channel.data, channel.full is set, fcode and ppKeyIn are cleared.  A
\* pending host key that has a console code never dequeues a key from the
\* ring, nor advances the throttle counter, in the same cycle.
C32_KeyInHostThenRing ==
    [][\A hostKey \in env.hostKeys :
           KeyInCycle(hostKey)
               => /\ activeChannel'.full
                  /\ activeDevice'.fcode = 0
                  /\ con'.ppKeyIn = NUL
                  /\ IF asciiToConsole(hostKey) # 0
                     THEN /\ activeChannel'.data = asciiToConsole(hostKey)
                          /\ con'.keyOut = con.keyOut
                          /\ con'.keyloops = con.keyloops
                     ELSE activeChannel'.data =
                              (IF con'.keyOut # con.keyOut
                               THEN con.keyRing[con.keyOut] ELSE 0)]_vars

\* C32 witness: the key-in cycle has delivered the host key "A" while a
\* queued key waits in the ring.
C32_Witness ==
    /\ activeDevice.deviceType = DtConsole
    /\ last.op = "io"
    /\ last.code = Fc6612SelKeyIn
    /\ activeChannel.data = asciiToConsole("A")
    /\ activeChannel.full
    /\ activeDevice.fcode = 0
    /\ con.keyIn # con.keyOut
    /\ con.keyRing[con.keyOut] = Oct(02)

\* the keys waiting in the ring, oldest first
RingKeys(c) ==
    [i \in 1 .. ((c.keyIn + KeyBufSize - c.keyOut) % KeyBufSize) |->
         c.keyRing[(c.keyOut + i - 1) % KeyBufSize]]

\* the step is an io cycle in which a Medium-font word completes the
\* remaining pattern of autoDateString
AutoDateFullMatch ==
    /\ activeDevice.deviceType = DtConsole
    /\ last'.op = "io"
    /\ activeChannel.full
    /\ con.autoDate
    /\ activeDevice.fcode \in {Fc6612Sel32CharLeft, Fc6612Sel32CharRight}
    /\ Hi6(activeChannel.data) = asciiToCdc(StrAt(con.autoDateString, con.autoPos))
    /\ Lo6(activeChannel.data) = asciiToCdc(StrAt(con.autoDateString, con.autoPos + 1))
    /\ \/ StrAt(con.autoDateString, con.autoPos + 1) = NUL
       \/ StrAt(con.autoDateString, con.autoPos + 2) = NUL

\* the console codes of "701102\n083059\n": the clock's date and time with
\* the year replaced by autoYearString "70"
AutoDateEntry ==
    <<Oct(42), Oct(33), Oct(34), Oct(34), Oct(33), Oct(35), Oct(60),
      Oct(33), Oct(43), Oct(36), Oct(33), Oct(40), Oct(44), Oct(60)>>

\* C33, as the spec states it: when a Medium-font word completes the
\* remaining pattern and the ring is empty, autoDate is cleared and exactly
\* the 14 keycodes of "YYMMDD\nHHMMSS\n" are enqueued in order; autoDate is not
\* cleared in any other situation (partial match, mismatch, or full match
\* while the ring holds typeahead).
C33_AutoDateClearedOnlyOnEmptyRing ==
    [][/\ (AutoDateFullMatch /\ con.keyIn = con.keyOut)
              => (~con'.autoDate /\ RingKeys(con') = AutoDateEntry)
       /\ (con.autoDate /\ ~con'.autoDate)
              => (AutoDateFullMatch /\ con.keyIn = con.keyOut)]_vars

\* C33, amended: when a Medium-font word completes the remaining pattern,
\* autoDate is cleared whether or not the ring is empty.  If the ring is empty
\* exactly the 14 keycodes of "YYMMDD\nHHMMSS\n" (YY replaced by the first two
\* characters of autoYearString) are enqueued in order, all fitting in the
\* ring; if the ring holds typeahead nothing is enqueued.  autoDate is not
\* cleared by a partial match or a mismatch.
C33_AutoDateClearedOnFullMatch ==
    [][/\ AutoDateFullMatch
              => /\ ~con'.autoDate
                 /\ con'.keyOut = con.keyOut
                 /\ RingKeys(con') = (IF con.keyIn = con.keyOut
                                      THEN AutoDateEntry ELSE RingKeys(con))
       /\ (con.autoDate /\ ~con'.autoDate) => AutoDateFullMatch]_vars

\* C33 witness: the word "CD" has completed the pattern "ABCD" on an empty
\* ring and the fourteen keys of the date entry wait in the ring.
C33_Witness ==
    /\ last.op = "io"
    /\ last.word = CdcWord("C", "D")
    /\ ~con.autoDate
    /\ RingKeys(con) = AutoDateEntry

\* the latched interrupt bits of a 3000-series context
Latched(lc) == lc.flags \cap {Lp3000IntReady, Lp3000IntEnd}

\* C34: after every lp3000Func call that changes the latched IntReady / IntEnd
\* bits (Output, the interrupt selects and releases, and Release) the
\* interrupt summary most recently reported through dcc6681Interrupt equals
\* whether any latched bit is set; in particular the summary is false once
\* Release has cleared the latched bits.
C34_SummaryFollowsLatchedBits ==
    [][(/\ Is3000
        /\ last'.op = "func"
        /\ Latched(activeDevice'.context) # Latched(activeDevice.context))
           => irq' = (Latched(activeDevice'.context) # {})]_vars

\* C35: paper removal never destroys printed output: after removePaper
\* returns on a non-empty file the bytes are either in an archive or still in
\* the active file, also when all 100 renames fail before the file is
\* reopened for writing.
C35_RemovePaperKeepsOutput ==
    [][(/\ IsPrinter
        /\ last'.op = "removePaper"
        /\ activeDevice.fcb # NULL
        /\ Len(fs.active) > 0)
           => \/ last'.host.archived = fs.active
              \/ fs'.active = fs.active]_vars

\* the words the io cycles recorded in t took off the channel, oldest first
IoWords(t) ==
    LET taken == SelectSeq(t, LAMBDA e : e.op = "io" /\ e.word # NoWord)
    IN  [i \in 1 .. Len(taken) |-> taken[i].word]

\* C36: whenever the Medium-font words written to the console contain the
\* word sequence of autoDateString ("AB", "CD") contiguously while autoDate is
\* set and the ring is empty, the matcher reaches the full-match step, which
\* clears autoDate, on the last word of that occurrence, whatever words
\* preceded it, a repeated first word of the pattern included.
C36_MatcherFindsEveryOccurrence ==
    (/\ activeDevice.deviceType = DtConsole
     /\ EndsWith(IoWords(trace), <<CdcWord("A", "B"), CdcWord("C", "D")>>))
        => ~con.autoDate

\* C37: with one thread in consoleQueueKey and another in consoleGetKey,
\* interleaved at the granularity of the single reads and writes of keyIn,
\* keyOut and the ring slots, the non-zero keys returned are exactly the
\* accepted keys in enqueue order: the keys returned so far are a prefix of
\* the keys accepted so far, the keys in between wait in the ring, and no
\* slot is read before it was written.
C37_RingDeliversAcceptedKeysInOrder ==
    /\ Len(race.got) <= Len(race.queued)
    /\ race.got = SubSeq(race.queued, 1, Len(race.got))
    /\ race.gk = "idle"
           => RingKeys(con) = SubSeq(race.queued, Len(race.got) + 1, Len(race.queued))
    /\ race.gk = "advance"
           => (race.key # 0 /\ race.key = race.queued[Len(race.got) + 1])

\* C37 witness: the ring has filled, both indices have wrapped, and the
\* emulator thread has just returned a key while the window thread stands
\* between storing the next key and publishing it.
C37_Witness ==
    /\ last.op = "getKey"
    /\ last.word # 0
    /\ race.qk = "publish"
    /\ Len(race.queued) > KeyBufSize
    /\ con.keyIn < con.keyOut
    /\ race.got = SubSeq(race.queued, 1, Len(race.got))

\* C38: for both printer families, once io has placed a status reply on the
\* channel (full set, fcode cleared), a further io call before the PP empties
\* the channel leaves channel.data and channel.full intact and does not write
\* the reply word into the capture file.
C38_StatusReplyStaysOnChannel ==
    [][(/\ IsPrinter
        /\ last.op = "io"
        /\ last.reply
        /\ activeChannel.full
        /\ activeDevice.fcode = 0
        /\ last'.op = "io")
           => /\ activeChannel'.data = activeChannel.data
              /\ activeChannel'.full
              /\ fs' = fs]_vars

\* the calls recorded end with the two interrupt selects, one after the
\* other in either order, and the last Output before them was issued with
\* both interrupts enabled and transferred a word
SelectsAfterOutput ==
    LET calls == Calls(trace)
        n == Len(calls)
        selects == {<<"func", SelIntReady(activeDevice.context.flags)>>,
                    <<"func", SelIntEnd(activeDevice.context.flags)>>}
    IN  /\ Is3000
        /\ n >= 6
        /\ {calls[n - 1], calls[n]} = selects
        /\ \E k \in 3 .. (n - 3) :
               /\ calls[k] = <<"func", Fc6681Output>>
               /\ calls[k + 1] = <<"io", WordAB>>
               /\ selects \subseteq {calls[j] : j \in 1 .. (k - 1)}
               /\ \A j \in (k + 2) .. (n - 2) : calls[j][1] # "func"

\* C39: after an Output transaction that transferred at least one word while
\* both interrupts were enabled, SelIntReady and SelIntEnd issued in either
\* order with no output in between preserve both latched bits: the keepInt
\* protection applies to each of the two selects, not only to the first.
C39_BothSelectsKeepLatchedBits ==
    SelectsAfterOutput
        => Latched(activeDevice.context) = {Lp3000IntReady, Lp3000IntEnd}

\* the console or the 1612 printer has just declined a function code
DeclinedCall ==
    /\ activeDevice.deviceType \in {DtConsole, DtLp1612}
    /\ last'.op = "func"
    /\ last'.ret = FcDeclined

\* C40, as the spec states it: a function code that consoleFunc or lp1612Func
\* declines changes no state: fcode, font and offset or context, the capture
\* file, channel data and channel full are the same after as before.
C40_DeclinedChangesNothing ==
    [][DeclinedCall
           => /\ activeDevice' = activeDevice
              /\ con' = con
              /\ fs' = fs
              /\ activeChannel' = activeChannel]_vars

\* C40, amended: a function code that consoleFunc or lp1612Func declines
\* leaves fcode, font and offset or context, the capture file and channel
\* data and status as they were.  lp1612Func leaves channel.full as it was
\* too; consoleFunc clears channel.full on every call, a declined one
\* included.
C40_DeclinedChangesOnlyConsoleFull ==
    [][DeclinedCall
           => /\ activeDevice' = activeDevice
              /\ con' = con
              /\ fs' = fs
              /\ activeChannel'.data = activeChannel.data
              /\ activeChannel'.status = activeChannel.status
              /\ activeChannel'.full =
                     (activeDevice.deviceType = DtLp1612 /\ activeChannel.full)]_vars

\* C40 witness: the console, with the Medium font selected and a word taken
\* off the channel, has declined a code; font, fcode and data are in place.
C40_Witness ==
    /\ activeDevice.deviceType = DtConsole
    /\ last.op = "func"
    /\ last.ret = FcDeclined
    /\ activeDevice.fcode = Fc6612Sel32CharLeft
    /\ con.currentFont = FontMedium
    /\ activeChannel.data = 64 * 1 + 2
    /\ ~activeChannel.full

====
